----------------------------- MODULE MCLibrary -----------------------------
(***************************************************************************)
(* What changes the user's library for TLC: transfers that others wait     *)
(* for, downloads to disk, the scans of a folder and the deletion grace    *)
(* period.  They share no state here, so that a behaviour of the group is  *)
(* a behaviour of the component in focus.                                  *)
(***************************************************************************)
EXTENDS MCTransferEngine, Download, FolderScan, DeletionGrace

VARIABLE focus  \* the component whose behaviour this is

groupVars == <<vars, downloadVars, scanVars, graceVars, focus>>

LibraryInit ==
  /\ focus \in {"queue", "download", "scan", "grace"}
  /\ Init /\ DownloadInit /\ ScanInit /\ GraceInit
  /\ focus # "queue" => account = CHOOSE o \in Owners : TRUE
  /\ focus # "download" => folder[<<>>] = "none"

LibraryNext ==
  \/ focus = "queue" /\ Next /\ UNCHANGED <<downloadVars, scanVars, graceVars, focus>>
  \/ focus = "download" /\ DownloadNext /\ UNCHANGED <<vars, scanVars, graceVars, focus>>
  \/ focus = "scan" /\ ScanNext /\ UNCHANGED <<vars, downloadVars, graceVars, focus>>
  \/ focus = "grace" /\ GraceNext /\ UNCHANGED <<vars, downloadVars, scanVars, focus>>

LibrarySpec == LibraryInit /\ [][LibraryNext]_groupVars
=============================================================================
