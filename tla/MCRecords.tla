----------------------------- MODULE MCRecords -----------------------------
(***************************************************************************)
(* The two records of what happened for TLC: the transfer records of the   *)
(* queue and the inventory of a folder.  They share no state, so that a    *)
(* behaviour of the group is a behaviour of the one in focus.              *)
(***************************************************************************)
EXTENDS MCTransferEngine, FileInventory

VARIABLE focus  \* the component whose behaviour this is

groupVars == <<vars, inventoryVars, focus>>

RecordsInit ==
  /\ focus \in {"transfers", "inventory"}
  /\ Init /\ InventoryInit
  /\ focus # "transfers" => account = CHOOSE o \in Owners : TRUE
  /\ focus # "inventory" => remote[1] = 0

RecordsNext ==
  \/ focus = "transfers" /\ Next /\ UNCHANGED <<inventoryVars, focus>>
  \/ focus = "inventory" /\ InventoryNext /\ UNCHANGED <<vars, focus>>

\* The scheduler loop wakes at least every second, and a write that can be
\* tried again and again is assumed to succeed in the end.
LoopRuns == \A id \in Jobs : SF_vars(focus = "transfers" /\ SavesResult(id))

\* The background loop ticks for an entry in use, its clock runs, and Telegram
\* stops refusing reads at some point; a background read that finds a consumer's
\* under way waits for it and tries again (forced_poll), hence SF.  The audit's
\* budget is of one minute and shared evenly by folders taken in rotation, so
\* that a folder is not refused for ever.
InventoryFairness ==
  /\ SF_inventoryVars(focus = "inventory" /\ ReadBegins(TRUE))
  /\ WF_inventoryVars(focus = "inventory" /\ AuditDue)
  /\ SF_inventoryVars(focus = "inventory" /\ reading.background /\ inventory.auditDue /\ AuditBatch)
  /\ WF_inventoryVars(focus = "inventory" /\ (ChangedRevision \/ ChangedDirty \/ Apply))
  /\ WF_inventoryVars(focus = "inventory" /\ (HistoryMessage \/ HistoryEnds \/ AuditBatch \/ SaveCursor \/ ReadEnds
                      \/ ReadConflicts \/ \E m \in Messages : VerifyChanged(m)))
  /\ <>[][~ReadFails]_inventoryVars

RecordsSpec ==
  RecordsInit /\ [][RecordsNext]_groupVars /\ LoopRuns /\ InventoryFairness
=============================================================================
