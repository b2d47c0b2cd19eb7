------------------------------- MODULE Account -------------------------------
(***************************************************************************)
(* Who is signed in: workspace/account.rs and the part of commands/auth.rs *)
(* that opens, replaces and removes telegram.session on a desktop.         *)
(*                                                                         *)
(* A sign-out, a client initialisation, a reconnect and a login run as     *)
(* separate commands and meet at every await.  The client lock is held by  *)
(* one initialisation from its start to its end; the lock of LIVE_SESSIONS *)
(* covers each lifecycle operation but not the removal of the file, which  *)
(* may fall between any two steps.                                         *)
(*                                                                         *)
(* A file is its identity (device and inode), 0 for no file; a session is  *)
(* an opened connection to a file.  Of what a file holds only the owner it *)
(* is signed in as is kept.  A session key serves one account: a server    *)
(* that has authorised it as an owner does not authorise it as another.    *)
(***************************************************************************)
EXTENDS Integers, FiniteSets

CONSTANTS
    Owners,         \* Telegram accounts
    NoOwner,        \* nobody
    MaxGeneration,  \* bound on sign-outs
    MaxFiles,       \* bound on session files ever made
    MaxSessions     \* bound on connections ever opened

ASSUME AccountAssumption ==
    /\ NoOwner \notin Owners
    /\ MaxGeneration \in Nat
    /\ MaxFiles \in Nat
    /\ MaxSessions \in Nat

VARIABLES
    generation,  \* LIFECYCLE.generation
    signing_out, \* LIFECYCLE.signing_out
    file,        \* identity of telegram.session
    contents,    \* identity -> owner it is signed in as
    sessions,    \* LIVE_SESSIONS, the entry of the one root
    opened,      \* session -> identity of the file it has open
    born,        \* session -> generation it was opened in
    live,        \* sessions something still refers to
    client,      \* TelegramState.client, by the session it speaks for
    session,     \* TelegramState.session
    api_id,      \* whether TelegramState.api_id is set
    connecting,  \* a caller waits for ensure_client_initialized()
    ensure,      \* the initialisation that holds the client lock
    reconnect,   \* a reconnect that has read api_id
    logout,      \* where cmd_logout() is
    login,       \* the authentication that is waiting for its reply
    guard,       \* one AccountGuard of those handed out
    ended,       \* history: a sign-out began since the guard was handed out
    signed_out,  \* history: a sign-out began, no login confirmed since
    leftover     \* history: the last sign-out could not remove the file

lifecycle == <<generation, signing_out>>
files == <<file, contents>>
opening == <<sessions, opened, born, live>>
telegram == <<client, session, api_id>>
calls == <<connecting, ensure, reconnect, logout, login>>
history == <<guard, ended, signed_out, leftover>>
vars == <<generation, signing_out, file, contents, sessions, opened, born,
          live, client, session, api_id, connecting, ensure, reconnect, logout,
          login, guard, ended, signed_out, leftover>>

-----------------------------------------------------------------------------
Files == 1..MaxFiles
Sessions == 1..MaxSessions
None == 0
Entry == [session : Sessions, identity : Files \cup {None},
          generation : 0..MaxGeneration, ready : BOOLEAN]
NoEntry == [session |-> None, identity |-> None, generation |-> 0,
            ready |-> FALSE]
NoLogin == [pc |-> "Idle", session |-> None, generation |-> 0,
            owner |-> NoOwner]
NoGuard == [owner |-> NoOwner, generation |-> 0]
NoEnsure == [pc |-> "Idle", session |-> None, before |-> None,
             quarantined |-> FALSE]

(* The lock of LIVE_SESSIONS, held across these steps only. *)
RegistryFree == ensure.pc \notin {"Statted", "Opened"} /\ login.pc # "Written"
ClientFree == ensure.pc = "Idle"

(* registered.session.upgrade() *)
Registered == sessions.session # None /\ sessions.session \in live
SameFile == sessions.identity # None /\ file = sessions.identity

(* current_owner(): the registered session's self peer, or what the file   *)
(* says when no session is alive; nobody when anything disagrees.          *)
CurrentOwner ==
    IF signing_out \/ file = None THEN NoOwner
    ELSE IF ~Registered THEN contents[file]
    ELSE IF sessions.generation = generation /\ SameFile /\ sessions.ready
    THEN contents[opened[sessions.session]] ELSE NoOwner

Valid(held) ==
    held.generation = generation /\ CurrentOwner = held.owner

(* AuthenticationSession::validate_in() *)
LoginValid(asked) ==
    /\ sessions.ready
    /\ sessions.generation = asked.generation
    /\ generation = asked.generation
    /\ sessions.session = asked.session
    /\ SameFile

Init ==
    /\ generation = 0
    /\ signing_out = FALSE
    /\ file = None
    /\ contents = [f \in Files |-> NoOwner]
    /\ sessions = NoEntry
    /\ opened = [s \in Sessions |-> None]
    /\ born = [s \in Sessions |-> 0]
    /\ live = {}
    /\ client = None
    /\ session = None
    /\ api_id = FALSE
    /\ connecting = FALSE
    /\ ensure = NoEnsure
    /\ reconnect = FALSE
    /\ logout = "Idle"
    /\ login = NoLogin
    /\ guard = NoGuard
    /\ ended = FALSE
    /\ signed_out = FALSE
    /\ leftover = FALSE

-----------------------------------------------------------------------------
(* cmd_connect(): resume(), then the client.  Asking for a login code or a *)
(* QR code needs the client as well, and does not resume.                  *)
Connect ==
    /\ RegistryFree
    /\ signing_out' = FALSE
    /\ api_id' = TRUE
    /\ connecting' = TRUE
    /\ UNCHANGED <<generation, files, opening, client, session, ensure,
                   reconnect, logout, login, history>>

StartSignIn ==
    /\ api_id' = TRUE
    /\ connecting' = TRUE
    /\ UNCHANGED <<lifecycle, files, opening, client, session, ensure,
                   reconnect, logout, login, history>>

(* cmd_check_connection() after a failed ping, and                         *)
(* cmd_reconnect_with_network_settings(): api_id is read, then the client  *)
(* dropped, then a new one made.                                           *)
ReconnectRead ==
    /\ api_id
    /\ reconnect' = TRUE
    /\ UNCHANGED <<lifecycle, files, opening, telegram, connecting, ensure,
                   logout, login, history>>
ReconnectClear ==
    /\ reconnect
    /\ ClientFree
    /\ reconnect' = FALSE
    /\ client' = None
    /\ connecting' = TRUE
    /\ UNCHANGED <<lifecycle, files, opening, session, api_id, ensure, logout,
                   login, history>>

-----------------------------------------------------------------------------
(***************************************************************************)
(* ensure_client_initialized(), under the client lock.  open_session()     *)
(* reuses the registered session of the same generation and file, or opens *)
(* the file and looks at its identity once more.                           *)
(***************************************************************************)
EnsureBegin ==
    /\ connecting
    /\ ClientFree
    /\ connecting' = FALSE
    /\ ensure' = IF client = None THEN [NoEnsure EXCEPT !.pc = "Begun"]
                 ELSE ensure
    /\ UNCHANGED <<lifecycle, files, opening, telegram, reconnect, logout,
                   login, history>>

(* Seeded fault: only the session of a present client is reused. *)
ReusableIfConnected ==
    Registered /\ sessions.generation = generation /\ SameFile /\ client # None

Reusable ==
    Registered /\ sessions.generation = generation /\ SameFile

EnsureStat ==
    /\ ensure.pc = "Begun"
    /\ RegistryFree
    /\ ensure' = IF Reusable
                 THEN [ensure EXCEPT !.pc = "Acquired",
                                     !.session = sessions.session]
                 ELSE [ensure EXCEPT !.pc = "Statted", !.before = file]
    /\ UNCHANGED <<lifecycle, files, opening, telegram, connecting, reconnect,
                   logout, login, history>>

(* Opening makes the file when there is none; files and sessions are       *)
(* numbered as they are made.                                              *)
Used == {s \in Sessions : opened[s] # None}
OpenedFiles == {opened[s] : s \in Used}
NewFile == Cardinality(OpenedFiles) + 1

EnsureOpen(s) ==
    /\ ensure.pc = "Statted"
    /\ s = Cardinality(Used) + 1
    /\ file' = IF file = None THEN NewFile ELSE file
    /\ file' \in Files
    /\ opened' = [opened EXCEPT ![s] = file']
    /\ born' = [born EXCEPT ![s] = generation]
    /\ live' = live \cup {s}
    /\ ensure' = [ensure EXCEPT !.pc = "Opened", !.session = s]
    /\ UNCHANGED <<lifecycle, contents, sessions, telegram, connecting,
                   reconnect, logout, login, history>>

(* The file cannot be opened: five retries, then the file is moved to      *)
(* quarantine, if it is there and can be moved, and opening is tried once  *)
(* more.                                                                   *)
EnsureOpenFails ==
    /\ ensure.pc = "Statted"
    /\ ensure' = [ensure EXCEPT !.pc = IF ensure.quarantined THEN "Idle"
                                       ELSE "Failed",
                                !.before = None, !.quarantined = FALSE]
    /\ UNCHANGED <<lifecycle, files, opening, telegram, connecting, reconnect,
                   logout, login, history>>
EnsureRetry ==
    /\ ensure.pc = "Failed"
    /\ ensure' = [ensure EXCEPT !.pc = "Begun"]
    /\ UNCHANGED <<lifecycle, files, opening, telegram, connecting, reconnect,
                   logout, login, history>>
EnsureQuarantine ==
    /\ ensure.pc = "Failed"
    /\ \/ /\ file # None
          /\ file' = None
          /\ ensure' = [ensure EXCEPT !.pc = "Begun", !.quarantined = TRUE]
       \/ /\ ensure' = NoEnsure
          /\ UNCHANGED file
    /\ UNCHANGED <<lifecycle, contents, opening, telegram, connecting,
                   reconnect, logout, login, history>>

EnsureInsert ==
    /\ ensure.pc = "Opened"
    /\ sessions' = [session |-> ensure.session,
                    identity |-> IF ensure.before \in {None, file}
                                 THEN file ELSE None,
                    generation |-> generation, ready |-> FALSE]
    /\ ensure' = [ensure EXCEPT !.pc = "Acquired"]
    /\ UNCHANGED <<lifecycle, files, opened, born, live, telegram, connecting,
                   reconnect, logout, login, history>>

(* register_session(): refused when the session, the generation or the     *)
(* file is no longer the one opened, or the layout cannot be verified.     *)
EnsureRegister ==
    /\ ensure.pc = "Acquired"
    /\ RegistryFree
    /\ sessions.session = ensure.session
    /\ sessions.generation = generation
    /\ SameFile
    /\ sessions' = [sessions EXCEPT !.ready = TRUE]
    /\ ensure' = [ensure EXCEPT !.pc = "Registered"]
    /\ UNCHANGED <<lifecycle, files, opened, born, live, telegram, connecting,
                   reconnect, logout, login, history>>
EnsureRefused ==
    /\ ensure.pc = "Acquired"
    /\ RegistryFree
    /\ \/ sessions.session # ensure.session
       \/ sessions.generation # generation
       \/ ~SameFile
       \/ ~sessions.ready
    /\ ensure' = NoEnsure
    /\ live' = IF ensure.session \in {session, login.session} THEN live
               ELSE live \ {ensure.session}
    /\ UNCHANGED <<lifecycle, files, sessions, opened, born, telegram, connecting,
                   reconnect, logout, login, history>>

EnsureInstallSession ==
    /\ ensure.pc = "Registered"
    /\ session' = ensure.session
    /\ ensure' = [ensure EXCEPT !.pc = "Installing"]
    /\ UNCHANGED <<lifecycle, files, opening, client, api_id, connecting,
                   reconnect, logout, login, history>>
EnsureInstallClient ==
    /\ ensure.pc = "Installing"
    /\ client' = ensure.session
    /\ ensure' = NoEnsure
    /\ UNCHANGED <<lifecycle, files, opening, session, api_id, connecting,
                   reconnect, logout, login, history>>

Referenced == {client, session, ensure.session, login.session}

(* The runner of a replaced client has wound down. *)
Drop(s) ==
    /\ s \in live \ Referenced
    /\ live' = live \ {s}
    /\ UNCHANGED <<lifecycle, files, sessions, opened, born, telegram, calls,
                   history>>

-----------------------------------------------------------------------------
(***************************************************************************)
(* A login: the client and its session are captured together, the request  *)
(* is sent, and complete_in() writes the confirmed owner between two       *)
(* looks at the file.  A reply for a session that is gone is refused.      *)
(***************************************************************************)
LoginCapture ==
    /\ login.pc = "Idle"
    /\ ClientFree
    /\ RegistryFree
    /\ client # None
    /\ session # None
    /\ LET asked == [pc |-> "Asked", session |-> session,
                     generation |-> generation, owner |-> NoOwner]
       IN LoginValid(asked) /\ login' = asked
    /\ UNCHANGED <<lifecycle, files, opening, telegram, connecting, ensure,
                   reconnect, logout, history>>

LoginWrite(owner) ==
    /\ login.pc = "Asked"
    /\ RegistryFree
    /\ contents[opened[login.session]] \in {NoOwner, owner}
    /\ LoginValid(login)
    /\ contents' = [contents EXCEPT ![opened[login.session]] = owner]
    /\ login' = [login EXCEPT !.pc = "Written", !.owner = owner]
    /\ signed_out' = FALSE
    /\ UNCHANGED <<lifecycle, file, opening, telegram, connecting, ensure,
                   reconnect, logout, guard, ended, leftover>>

(* Seeded fault: the file is not looked at again. *)
LoginFinishUnchecked ==
    /\ login.pc = "Written"
    /\ signing_out' = FALSE
    /\ login' = NoLogin
    /\ UNCHANGED <<generation, files, opening, telegram, connecting, ensure,
                   reconnect, logout, history>>

LoginFinish ==
    /\ login.pc = "Written"
    /\ LoginValid(login)
    /\ signing_out' = FALSE
    /\ login' = NoLogin
    /\ UNCHANGED <<generation, files, opening, telegram, connecting, ensure,
                   reconnect, logout, history>>

(* The reply is refused, is an error, or never comes. *)
LoginFails ==
    /\ \/ login.pc = "Asked"
       \/ login.pc = "Written" /\ ~LoginValid(login)
    /\ login' = NoLogin
    /\ UNCHANGED <<lifecycle, files, opening, telegram, connecting, ensure,
                   reconnect, logout, history>>

-----------------------------------------------------------------------------
(***************************************************************************)
(* cmd_logout(): suspend() first, then the request to Telegram, which may  *)
(* take ten seconds, then the client, the API id, the session and the file *)
(* one after the other.  Whether the file could be removed is not looked   *)
(* at.                                                                     *)
(***************************************************************************)
Suspend ==
    /\ logout = "Idle"
    /\ RegistryFree
    /\ generation < MaxGeneration
    /\ signing_out' = TRUE
    /\ generation' = generation + 1
    /\ ended' = (guard # NoGuard)
    /\ signed_out' = TRUE
    /\ logout' = "Revoking"
    /\ UNCHANGED <<files, opening, telegram, connecting, ensure, reconnect,
                   login, guard, leftover>>

LogoutClearClient ==
    /\ logout = "Revoking"
    /\ ClientFree
    /\ client' = None
    /\ logout' = "ClientGone"
    /\ UNCHANGED <<lifecycle, files, opening, session, api_id, connecting,
                   ensure, reconnect, login, history>>
LogoutClearApi ==
    /\ logout = "ClientGone"
    /\ api_id' = FALSE
    /\ logout' = "ApiGone"
    /\ UNCHANGED <<lifecycle, files, opening, client, session, connecting,
                   ensure, reconnect, login, history>>
LogoutClearSession ==
    /\ logout = "ApiGone"
    /\ session' = None
    /\ logout' = "SessionGone"
    /\ UNCHANGED <<lifecycle, files, opening, client, api_id, connecting,
                   ensure, reconnect, login, history>>

LogoutRemove ==
    /\ logout = "SessionGone"
    /\ file' \in {None, file}
    /\ leftover' = (file' # None)
    /\ logout' = "Idle"
    /\ UNCHANGED <<lifecycle, contents, opening, telegram, connecting, ensure,
                   reconnect, login, guard, ended, signed_out>>

(* AccountGuard::open() *)
OpenGuard ==
    /\ guard = NoGuard
    /\ RegistryFree
    /\ CurrentOwner # NoOwner
    /\ guard' = [owner |-> CurrentOwner, generation |-> generation]
    /\ UNCHANGED <<lifecycle, files, opening, telegram, calls, ended,
                   signed_out, leftover>>

Next ==
    \/ Connect
    \/ StartSignIn
    \/ ReconnectRead
    \/ ReconnectClear
    \/ EnsureBegin
    \/ EnsureStat
    \/ \E s \in Sessions : EnsureOpen(s)
    \/ EnsureOpenFails
    \/ EnsureRetry
    \/ EnsureQuarantine
    \/ EnsureInsert
    \/ EnsureRegister
    \/ EnsureRefused
    \/ EnsureInstallSession
    \/ EnsureInstallClient
    \/ \E s \in Sessions : Drop(s)
    \/ LoginCapture
    \/ \E owner \in Owners : LoginWrite(owner)
    \/ LoginFinish
    \/ LoginFails
    \/ Suspend
    \/ LogoutClearClient
    \/ LogoutClearApi
    \/ LogoutClearSession
    \/ LogoutRemove
    \/ OpenGuard

Spec == Init /\ [][Next]_vars

-----------------------------------------------------------------------------
Unopened == {"Idle", "Begun", "Statted", "Failed"}
Holding == {"Opened", "Acquired", "Registered", "Installing"}

(* Every variable has its type, and what a client, a login or an           *)
(* initialisation uses is open.                                            *)
TypeOK ==
    /\ generation \in 0..MaxGeneration
    /\ signing_out \in BOOLEAN
    /\ file \in Files \cup {None}
    /\ contents \in [Files -> Owners \cup {NoOwner}]
    /\ sessions \in Entry \cup {NoEntry}
    /\ opened \in [Sessions -> Files \cup {None}]
    /\ born \in [Sessions -> 0..MaxGeneration]
    /\ live \in SUBSET Used
    /\ Referenced \subseteq live \cup {None}
    /\ api_id \in BOOLEAN
    /\ connecting \in BOOLEAN
    /\ ensure \in [pc : Unopened \cup Holding, session : Sessions \cup {None},
                   before : Files \cup {None}, quarantined : BOOLEAN]
    /\ reconnect \in BOOLEAN
    /\ logout \in {"Idle", "Revoking", "ClientGone", "ApiGone", "SessionGone"}
    /\ login \in [pc : {"Idle", "Asked", "Written"},
                  session : Sessions \cup {None},
                  generation : 0..MaxGeneration,
                  owner : Owners \cup {NoOwner}]
    /\ guard \in [owner : Owners, generation : 0..MaxGeneration] \cup {NoGuard}
    /\ ended \in BOOLEAN
    /\ signed_out \in BOOLEAN
    /\ leftover \in BOOLEAN

(* "Even a return to the same owner after sign-out starts a fresh          *)
(* session": a guard handed out before a sign-out is never valid again,    *)
(* whoever signs in later.                                                 *)
GuardsEnd == ended => ~Valid(guard)

(* Connections of one generation share one session per file, so that no    *)
(* competing writer is opened while an older client winds down.            *)
OneWriter ==
    \A s, t \in live : opened[s] = opened[t] /\ born[s] = born[t] => s = t

(* Once a sign-out has returned nobody is signed in until Telegram         *)
(* confirms a login, whatever was still initialising or waiting for a      *)
(* reply, provided the session file could be removed.                      *)
SignedOutStays ==
    signed_out /\ logout = "Idle" /\ ~leftover => CurrentOwner = NoOwner

(* Sessions and files are numbered as they are made, and only a file that  *)
(* was opened is signed in.                                                *)
Numbered ==
    /\ Used = 1..Cardinality(Used)
    /\ OpenedFiles = 1..Cardinality(OpenedFiles)
    /\ file \in OpenedFiles \cup {None}
    /\ \A f \in Files : contents[f] # NoOwner => f \in OpenedFiles
    /\ \A s \in Used : born[s] <= generation

(* The initialisation that holds the client lock, and what it has opened.  *)
EnsureSound ==
    /\ ensure.pc # "Idle" => client = None
    /\ ensure.session # None <=> ensure.pc \in Holding
    /\ ensure.pc = "Opened" => /\ file \in {None, opened[ensure.session]}
                               /\ born[ensure.session] = generation
                               /\ ensure.session \notin {session, login.session}

(* The live session of this generation and file is the registered one; one *)
(* that was just opened is not registered yet, and nobody else has it.     *)
Known(t) ==
    \/ /\ sessions.session = t
       /\ sessions.generation = generation
       /\ sessions.identity = file
    \/ /\ ensure.pc \in {"Opened", "Acquired"}
       /\ ensure.session = t
       /\ t \notin {session, login.session}
RegistrySound ==
    /\ sessions.session \in Used \cup {None}
    /\ sessions.identity # None =>
         sessions.identity = opened[sessions.session]
    /\ \A t \in live :
         file # None /\ opened[t] = file /\ born[t] = generation =>
           ensure.pc # "Statted" /\ Known(t)

(* A login writes the owner into the file of its own session.              *)
LoginSound ==
    /\ login.pc # "Idle" => login.session # None
    /\ login.pc = "Written" =>
         contents[opened[login.session]] = login.owner

(* A sign-out puts every guard handed out behind it.                       *)
GuardSound ==
    /\ guard.generation <= generation
    /\ ended => guard # NoGuard /\ guard.generation < generation

(* After a sign-out that removed the file, the next file is new.           *)
SignedOutFile ==
    signed_out /\ logout = "Idle" /\ ~leftover /\ file # None =>
        contents[file] = NoOwner

(* The session, its guards and its files, through sign-outs and logins.    *)
AccountInv ==
    /\ TypeOK /\ GuardsEnd /\ OneWriter /\ SignedOutStays
    /\ Numbered /\ EnsureSound /\ RegistrySound /\ LoginSound
    /\ GuardSound /\ SignedOutFile

(* A login reply may only activate the exact session that sent its         *)
(* request: a login that completes opens the workspace of the account      *)
(* Telegram confirmed, and no other, although the file, the session and    *)
(* the client may have been replaced while the reply was on its way.       *)
LoginOpensOwnWorkspace ==
    [][login.pc = "Written" /\ login'.pc = "Idle" /\ signing_out /\ ~signing_out'
         => CurrentOwner' = login.owner]_vars
=============================================================================
