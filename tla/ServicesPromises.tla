-------------------------- MODULE ServicesPromises --------------------------
(***************************************************************************)
(* The background services side by side: the quota, the content pacer, the *)
(* auto-lock supervisor and the local servers.  They share no state.       *)
(***************************************************************************)
EXTENDS Bandwidth, Pacer, VaultSessions, ServerLifecycle

(***************************************************************************)
(* What holds of the services in every state: the quota's counters never   *)
(* overflow and its file is never behind what it recorded (bandwidth.rs),  *)
(* a lock takes back every handle and key given out before (crypto/        *)
(* state.rs), and only the server of the last restart is served once the   *)
(* restarts are over (server_lifecycle.rs).                                *)
(***************************************************************************)
ServicesInv ==
  /\ BandwidthInv /\ ChargesFit
  /\ PacerTypeOK
  /\ SessionsTypeOK /\ NothingOutlivesItsSession
  /\ ServerTypeOK /\ OnlyCurrentServed
=============================================================================
