---------------------------- MODULE MCServices ----------------------------
(***************************************************************************)
(* The background services for TLC: the quota, the content pacer, the      *)
(* auto-lock supervisor and the local servers.  They share no state, so    *)
(* that a behaviour of the group is a behaviour of the service in focus    *)
(* while the others stay as they were.                                     *)
(***************************************************************************)
EXTENDS ServicesPromises

VARIABLE focus  \* the service whose behaviour this is

groupVars == <<vars, pacerVars, sessionVars, serverVars, focus>>

MCSlow == [half |-> 2, full |-> 1]

ServicesInit ==
  /\ focus \in {"quota", "pacer", "sessions", "server"}
  /\ Init /\ PacerInit /\ SessionsInit /\ ServerInit
  /\ focus # "quota" => clock = CHOOSE w \in Weeks : TRUE
  /\ focus # "pacer" => policy = "free"
  /\ focus # "sessions" => ~timeoutSet

ServicesNext ==
  \/ focus = "quota" /\ Next /\ UNCHANGED <<pacerVars, sessionVars, serverVars, focus>>
  \/ focus = "pacer" /\ PacerNext /\ UNCHANGED <<vars, sessionVars, serverVars, focus>>
  \/ focus = "sessions" /\ SessionsNext /\ UNCHANGED <<vars, pacerVars, serverVars, focus>>
  \/ focus = "server" /\ ServerNext /\ UNCHANGED <<vars, pacerVars, sessionVars, focus>>

(***************************************************************************)
(* Fairness, of the service in focus.                                      *)
(***************************************************************************)
\* Time passes, and a waiting transfer polls again after at most 250 ms.
PacerFairness ==
  /\ WF_pacerVars(focus = "pacer" /\ PacerClock)
  /\ \A t \in PacedTransfers :
       /\ WF_pacerVars(focus = "pacer" /\ PollFree(t))
       /\ WF_pacerVars(focus = "pacer" /\ (PollJoin(t) \/ PollRefused(t)))
       /\ WF_pacerVars(focus = "pacer" /\ PollGranted(t))

\* The supervisor is a task of its own that is always scheduled; when its
\* deadline and a change are both ready, select! picks one at random, so that
\* the deadline is not passed over for ever.
SessionsFairness ==
  /\ WF_sessionVars(focus = "sessions" /\ (NextAutoLockDeadline \/ WaitForAutoLockChange))
  /\ SF_sessionVars(focus = "sessions" /\ LockIfAutoLockDue)

\* Every task and thread goes on; a server asked to stop stops.
ServerFairness ==
  /\ \A r \in Restarts :
       WF_serverVars(focus = "server" /\ (RequestRestart(r) \/ LockOperation(r) \/ Stopped(r) \/ StartupAnswered(r)))
  /\ \A g \in Generations :
       /\ WF_serverVars(focus = "server" /\ (Bind(g) \/ InstallHandle(g) \/ ServerFinished(g)))
       /\ WF_serverVars(focus = "server" /\ listener[g].pc = "stopping" /\ ServerStops(g))

ServicesSpec ==
  /\ ServicesInit /\ [][ServicesNext]_groupVars
  /\ PacerFairness /\ SessionsFairness /\ ServerFairness
=============================================================================
