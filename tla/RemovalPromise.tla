--------------------------- MODULE RemovalPromise ---------------------------
(***************************************************************************)
(* What the deletion grace period promises, without its commands, their    *)
(* durable steps and their failures: a file is kept, offered for removal,  *)
(* condemned or given up.  It can be taken back until it is condemned; the *)
(* application destroys only what is condemned, takes back what it         *)
(* condemned only while it has not destroyed it, and gives up only what no *)
(* longer exists.                                                          *)
(***************************************************************************)
VARIABLES
  fate,       \* "kept", "offered", "condemned" or "gone"
  exists,     \* Telegram has the file
  destroyed   \* this application deleted it

promiseVars == <<fate, exists, destroyed>>

PromiseInit == fate = "kept" /\ exists = TRUE /\ destroyed = FALSE

Offer ==
  /\ fate = "kept" /\ ~destroyed /\ fate' = "offered"
  /\ UNCHANGED <<exists, destroyed>>

TakeBack ==
  /\ fate = "offered" /\ fate' = "kept"
  /\ UNCHANGED <<exists, destroyed>>

Condemn ==
  /\ fate = "offered" /\ fate' = "condemned"
  /\ UNCHANGED <<exists, destroyed>>

\* What was condemned turns out to have changed, and is no longer wanted gone.
Spare ==
  /\ fate = "condemned" /\ ~destroyed /\ fate' = "kept"
  /\ UNCHANGED <<exists, destroyed>>

Destroy ==
  /\ fate = "condemned" /\ exists' = FALSE /\ destroyed' = TRUE
  /\ UNCHANGED fate

GiveUp ==
  /\ fate \in {"offered", "condemned"} /\ ~exists /\ fate' = "gone"
  /\ UNCHANGED <<exists, destroyed>>

\* Another device deletes the file; nothing brings it back.
Vanish ==
  /\ exists /\ exists' = FALSE
  /\ UNCHANGED <<fate, destroyed>>

PromiseNext == Offer \/ TakeBack \/ Condemn \/ Spare \/ Destroy \/ GiveUp \/ Vanish

PromiseSpec == PromiseInit /\ [][PromiseNext]_promiseVars
=============================================================================
