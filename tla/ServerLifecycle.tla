-------------------------- MODULE ServerLifecycle --------------------------
(***************************************************************************)
(* A restartable local server (server_lifecycle.rs) as the settings        *)
(* commands and restart_api_server / restart_webdav_server of lib.rs use   *)
(* it.  Every change of the settings (port, on or off, a new key or token) *)
(* is saved and followed by a restart; restarts run concurrently and are   *)
(* serialised by an async mutex, and the generation a restart drew decides *)
(* whether it may still act.  A server runs on a thread of its own and     *)
(* reports its end later.                                                  *)
(***************************************************************************)
EXTENDS Naturals, FiniteSets

CONSTANTS Restarts      \* settings commands that may run at once

ASSUME RestartsAssumption == IsFiniteSet(Restarts)

VARIABLES
  settings,     \* the settings file: version and whether the server is on
  generation,   \* LifecycleState.generation
  installed,    \* LifecycleState.handle: the generation of the server, or 0
  running,      \* what the user interface shows
  operation,    \* holder of the operation mutex, or 0
  restart,      \* Restart -> [pc, gen]
  listener,     \* generation -> [pc, version] of the server thread
  closing       \* the process is shutting down

serverVars == <<settings, generation, installed, running, operation, restart,
                listener, closing>>

\* Each restart draws one generation, a shutdown one more.
Generations == 1..(Cardinality(Restarts) + 1)
NoListener == [pc |-> "none", version |-> 0]
Listening == {g \in Generations : listener[g].pc \in {"bound", "serving", "stopping"}}

ServerInit ==
  /\ settings = [version |-> 0, enabled |-> FALSE]
  /\ generation = 0 /\ installed = 0 /\ running = FALSE /\ operation = 0
  /\ restart = [r \in Restarts |-> [pc |-> "idle", gen |-> 0]]
  /\ listener = [g \in Generations |-> NoListener]
  /\ closing = FALSE

\* Saving the file of the settings, under its lock: a new port, key or token.
SettingsSaved(e) == settings' = [version |-> settings.version + 1, enabled |-> e]

\* A settings command saves the file.
SaveSettings(r) ==
  /\ restart[r].pc = "idle" /\ ~closing
  /\ \E e \in BOOLEAN : SettingsSaved(e)
  /\ restart' = [restart EXCEPT ![r].pc = "request"]
  /\ UNCHANGED <<generation, installed, running, operation, listener, closing>>

RequestRestart(r) ==
  /\ restart[r].pc = "request"
  /\ generation' = generation + 1
  /\ running' = FALSE
  /\ restart' = [restart EXCEPT ![r] = [pc |-> "lock", gen |-> generation + 1]]
  /\ UNCHANGED <<settings, installed, operation, listener, closing>>

IsCurrent(r) == restart[r].gen = generation

\* take_handle, and the request to stop that is sent with it.
TakeHandle ==
  /\ installed' = 0 /\ running' = FALSE
  /\ listener' = [g \in Generations |->
                    IF g = installed /\ listener[g].pc = "serving"
                    THEN [listener[g] EXCEPT !.pc = "stopping"] ELSE listener[g]]

\* The operation mutex is taken and the old handle, if it is still this
\* restart's turn.
LockOperation(r) ==
  /\ restart[r].pc = "lock" /\ operation = 0
  /\ \/ /\ ~IsCurrent(r)
        /\ restart' = [restart EXCEPT ![r].pc = "done"]
        /\ UNCHANGED <<operation, installed, running, listener>>
     \/ /\ IsCurrent(r)
        /\ operation' = r
        /\ TakeHandle
        /\ restart' = [restart EXCEPT ![r].pc = "stop"]
  /\ UNCHANGED <<settings, generation, closing>>

ReleaseOperation(r) ==
  /\ operation' = 0
  /\ restart' = [restart EXCEPT ![r].pc = "done"]

\* handle.stop(true) returned: the listener it was called for is closed.
Stopped(r) ==
  /\ restart[r].pc = "stop"
  /\ {g \in Generations : listener[g].pc = "stopping"} = {}
  /\ \/ /\ ~IsCurrent(r) \/ ~settings.enabled
        /\ ReleaseOperation(r) /\ UNCHANGED listener
     \/ /\ IsCurrent(r) /\ settings.enabled
        /\ listener' = [listener EXCEPT ![restart[r].gen] =
                          [pc |-> "binding", version |-> settings.version]]
        /\ restart' = [restart EXCEPT ![r].pc = "start"]
        /\ UNCHANGED operation
  /\ UNCHANGED <<settings, generation, installed, running, closing>>

(***************************************************************************)
(* The thread of the server of generation g.                               *)
(***************************************************************************)
\* Binding is retried while the port is taken and the generation current.
Bind(g) ==
  /\ listener[g].pc = "binding"
  /\ \/ /\ generation = g /\ Listening = {}
        /\ listener' = [listener EXCEPT ![g].pc = "bound"]
        /\ UNCHANGED running
     \/ /\ generation # g
        /\ listener' = [listener EXCEPT ![g].pc = "ended"]
        /\ UNCHANGED running
     \/ \* the port stays taken, or another error: set_error
        /\ listener' = [listener EXCEPT ![g].pc = "ended"]
        /\ running' = IF generation = g THEN FALSE ELSE running
  /\ UNCHANGED <<settings, generation, installed, operation, restart, closing>>

InstallHandle(g) ==
  /\ listener[g].pc = "bound"
  /\ \/ /\ generation = g
        /\ installed' = g /\ running' = TRUE
        /\ listener' = [listener EXCEPT ![g].pc = "serving"]
     \/ /\ generation # g
        /\ listener' = [listener EXCEPT ![g].pc = "ended"]
        /\ UNCHANGED <<installed, running>>
  /\ UNCHANGED <<settings, generation, operation, restart, closing>>

\* Only a thread that serves answers the restart.
AnsweredServing(r) ==
  /\ restart[r].pc = "start"
  /\ listener[restart[r].gen].pc = "serving"
  /\ ReleaseOperation(r)
  /\ UNCHANGED <<settings, generation, installed, running, listener, closing>>

\* The restart learns that its thread has started, or will not.
StartupAnswered(r) ==
  /\ restart[r].pc = "start"
  /\ listener[restart[r].gen].pc \notin {"binding", "bound"}
  /\ ReleaseOperation(r)
  /\ UNCHANGED <<settings, generation, installed, running, listener, closing>>

\* The accept loop ends, asked to or on its own; it reports so later.
ServerStops(g) ==
  /\ listener[g].pc \in {"serving", "stopping"}
  /\ listener' = [listener EXCEPT ![g].pc = "stopped"]
  /\ UNCHANGED <<settings, generation, installed, running, operation, restart, closing>>

ServerFinished(g) ==
  /\ listener[g].pc = "stopped"
  /\ installed' = IF installed = g THEN 0 ELSE installed
  /\ running' = IF generation = g THEN FALSE ELSE running
  /\ listener' = [listener EXCEPT ![g].pc = "ended"]
  /\ UNCHANGED <<settings, generation, operation, restart, closing>>

\* Shutdown does not wait for the operation mutex.
BeginShutdown ==
  /\ ~closing /\ closing' = TRUE
  /\ generation' = generation + 1
  /\ TakeHandle
  /\ UNCHANGED <<settings, operation, restart>>

ServerNext ==
  \/ \E r \in Restarts :
       \/ SaveSettings(r) \/ RequestRestart(r) \/ LockOperation(r) \/ Stopped(r)
       \/ StartupAnswered(r)
  \/ \E g \in Generations : Bind(g) \/ InstallHandle(g) \/ ServerStops(g) \/ ServerFinished(g)
  \/ BeginShutdown

ServerSpec == ServerInit /\ [][ServerNext]_serverVars

-----------------------------------------------------------------------------
ServerTypeOK ==
  /\ settings.version \in 0..Cardinality(Restarts) /\ settings.enabled \in BOOLEAN
  /\ generation \in 0..Cardinality(Generations)
  /\ installed \in Generations \cup {0} /\ operation \in Restarts \cup {0}
  /\ {running, closing} \subseteq BOOLEAN
  /\ \A g \in Generations :
       listener[g].pc \in {"none", "binding", "bound", "serving", "stopping", "stopped", "ended"}

RestartsSettled == \A r \in Restarts : restart[r].pc \in {"idle", "done"}

(***************************************************************************)
(* Only the current settings are served: when no restart is in progress,   *)
(* a server that still accepts connections runs with the settings of the   *)
(* file, is the one that a later restart would stop, and is not one that   *)
(* was switched off.  A key or token that was replaced, or a port that was *)
(* given up, never stays in service (install_handle, server_finished).     *)
(***************************************************************************)
OnlyCurrentServed ==
  (RestartsSettled /\ ~closing) =>
    \A g \in Generations :
      listener[g].pc \in {"bound", "serving"} =>
        /\ listener[g].version = settings.version /\ settings.enabled
        /\ installed = g

(***************************************************************************)
(* Every settings command ends, although the operation mutex is held       *)
(* across the stop of one server and the start of the next, and although   *)
(* a newer command or a shutdown takes its turn away half way.             *)
(***************************************************************************)
RestartsEnd ==
  \A r \in Restarts : []<>(restart[r].pc \in {"idle", "done"})
=============================================================================
