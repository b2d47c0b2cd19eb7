----------------------------- MODULE Supporter -----------------------------
(***************************************************************************)
(* The supporter purchase of commands/supporter.rs.  Commands run one at a *)
(* time; each writes the state file, the system's credential store and the *)
(* service in turn, and the process may end, a store refuse or an answer   *)
(* be lost between any two.  Orders are numbered; the customer pays an     *)
(* order through the link the application showed, at any later time until  *)
(* the service closes it.                                                  *)
(***************************************************************************)
EXTENDS Naturals

CONSTANTS Orders,       \* payment orders the service creates, 1..n
          Foreign       \* a purchase made on another device

ASSUME SupporterAssumption == Orders \subseteq Nat \ {0} /\ Foreign \in Nat \ (Orders \cup {0})

VARIABLES
  licence,      \* the state file: token, claim (0 is none), revoked
  keyring,      \* the credential store: recovery code, checkout secret
  order,        \* Order -> "none", "open", "paid" or "closed", at the service
  shown,        \* orders whose payment link the customer was given
  delivered,    \* purchases whose token or recovery code was stored once
  adFree,       \* SPONSOR_OFFLINE_UNTIL is set
  task          \* the command that runs: [pc, order, code]

supporterVars == <<licence, keyring, order, shown, delivered, adFree, task>>

Step(pc, o, code) == [pc |-> pc, order |-> o, code |-> code]
NoTask == Step("idle", 0, FALSE)
Purchases == Orders \cup {Foreign}

SupporterInit ==
  /\ licence = [token |-> 0, claim |-> 0, revoked |-> FALSE]
  /\ keyring = [recovery |-> 0, secret |-> 0]
  /\ order = [o \in Orders |-> "none"]
  /\ shown = {} /\ delivered = {} /\ adFree = FALSE /\ task = NoTask

Idle == task.pc = "idle"
Finish == task' = NoTask

\* cmd_get_supporter_status and the end of every command: the cached access
\* follows the verified state; a token past its grace period gives none.
StatusFromState(l) == IF l.revoked \/ l.token = 0 THEN {FALSE} ELSE BOOLEAN

GetStatus ==
  /\ Idle
  /\ adFree' \in StatusFromState(licence)
  /\ UNCHANGED <<licence, keyring, order, shown, delivered, task>>

\* The customer pays, or the service closes the order for good.
Pay(o) ==
  /\ o \in shown /\ order[o] = "open"
  /\ order' = [order EXCEPT ![o] = "paid"]
  /\ UNCHANGED <<licence, keyring, shown, delivered, adFree, task>>

CloseOrder(o) ==
  /\ order[o] = "open"
  /\ order' = [order EXCEPT ![o] = "closed"]
  /\ UNCHANGED <<licence, keyring, shown, delivered, adFree, task>>

(***************************************************************************)
(* Beginning a checkout.                                                   *)
(***************************************************************************)
\* A checkout that is pending is continued through its own link.
ContinueCheckout ==
  /\ Idle /\ licence.claim # 0 /\ keyring.secret = licence.claim
  /\ shown' = shown \cup {o \in {licence.claim} : order[o] = "open"}
  /\ UNCHANGED <<licence, keyring, order, delivered, adFree, task>>

\* Nothing but a pending checkout keeps the customer from a new one.
NewCheckoutPending == licence.claim = 0

NewCheckoutAllowed ==
  /\ licence.token = 0 /\ ~licence.revoked /\ licence.claim = 0
  /\ keyring.recovery = 0

\* The service creates the order; its answer may be lost.
BeginCheckout(o) ==
  /\ Idle /\ licence.claim = 0 /\ NewCheckoutAllowed
  /\ order[o] = "none" /\ \A p \in Orders : p < o => order[p] # "none"
  /\ order' = [order EXCEPT ![o] = "open"]
  /\ task' \in {NoTask, Step("saveSecret", o, FALSE)}
  /\ UNCHANGED <<licence, keyring, shown, delivered, adFree>>

SaveCheckoutSecret ==
  /\ task.pc = "saveSecret"
  /\ keyring' = [keyring EXCEPT !.secret = task.order]
  /\ task' = [task EXCEPT !.pc = "saveClaim"]
  /\ UNCHANGED <<licence, order, shown, delivered, adFree>>

\* The claim is stored before the customer sees the link.
SaveClaim ==
  /\ task.pc = "saveClaim"
  /\ licence' = [licence EXCEPT !.claim = task.order]
  /\ shown' = shown \cup {task.order}
  /\ Finish
  /\ UNCHANGED <<keyring, order, delivered, adFree>>

(***************************************************************************)
(* Polling a pending checkout.                                             *)
(***************************************************************************)
\* A completed order comes with its recovery code, unless the service is an
\* older one or was acknowledged before.
PollCompleted ==
  /\ Idle /\ licence.claim # 0 /\ keyring.secret = licence.claim
  /\ order[licence.claim] = "paid"
  /\ licence.token \in {0, licence.claim}
  /\ task' \in {Step("saveCode", licence.claim, TRUE), Step("saveLicence", licence.claim, FALSE)}
  /\ UNCHANGED <<licence, keyring, order, shown, delivered, adFree>>

SaveRecoveryCode ==
  /\ task.pc = "saveCode"
  /\ keyring' = [keyring EXCEPT !.recovery = task.order]
  /\ delivered' = delivered \cup {task.order}
  /\ task' = [task EXCEPT !.pc = "saveLicence"]
  /\ UNCHANGED <<licence, order, shown, adFree>>

\* Only a receipt that was saved ends the claim.
SaveLicence ==
  /\ task.pc = "saveLicence"
  /\ licence' = [token |-> task.order, revoked |-> FALSE,
                 claim |-> IF task.code THEN 0 ELSE licence.claim]
  /\ delivered' = delivered \cup {task.order}
  /\ task' = [task EXCEPT !.pc = IF task.code THEN "clearSecret" ELSE "status"]
  /\ UNCHANGED <<keyring, order, shown, adFree>>

\* After the acknowledgement, which is optional; clearing may fail too.
ClearCheckoutSecret ==
  /\ task.pc = "clearSecret"
  /\ keyring' \in {keyring, [keyring EXCEPT !.secret = 0]}
  /\ task' = [task EXCEPT !.pc = "status"]
  /\ UNCHANGED <<licence, order, shown, delivered, adFree>>

Report ==
  /\ task.pc = "status"
  /\ adFree' \in StatusFromState(licence)
  /\ Finish
  /\ UNCHANGED <<licence, keyring, order, shown, delivered>>

\* The service says so for good (unpaid_final), of this very claim.
ConfirmedUnpaid(o) == order[o] = "closed"

PollUnpaid ==
  /\ Idle /\ licence.claim # 0 /\ keyring.secret = licence.claim
  /\ ConfirmedUnpaid(licence.claim)
  /\ licence' = [licence EXCEPT !.claim = 0]
  /\ task' = Step("dropSecret", 0, FALSE)
  /\ UNCHANGED <<keyring, order, shown, delivered, adFree>>

DropSecret ==
  /\ task.pc = "dropSecret"
  /\ keyring' \in {keyring, [keyring EXCEPT !.secret = 0]}
  /\ Finish
  /\ UNCHANGED <<licence, order, shown, delivered, adFree>>

(***************************************************************************)
(* Restoring a purchase with its recovery code, and refreshing it.         *)
(***************************************************************************)
Activate(p) ==
  /\ Idle /\ p \in delivered \cup {Foreign}
  /\ task' = Step("activateCode", p, TRUE)
  /\ UNCHANGED <<licence, keyring, order, shown, delivered, adFree>>

ActivateSaveCode ==
  /\ task.pc = "activateCode"
  /\ keyring' = [keyring EXCEPT !.recovery = task.order]
  /\ task' = [task EXCEPT !.pc = "activateLicence"]
  /\ UNCHANGED <<licence, order, shown, delivered, adFree>>

\* An older payment that is unresolved keeps its claim and its secret.
ActivateSaveLicence ==
  /\ task.pc = "activateLicence"
  /\ licence' = [licence EXCEPT !.token = task.order, !.revoked = FALSE]
  /\ task' = [task EXCEPT !.pc = IF licence.claim = 0 THEN "clearSecret" ELSE "status"]
  /\ UNCHANGED <<keyring, order, shown, delivered, adFree>>

\* Refreshing renews the token of the same purchase, fails, or learns of a
\* revocation, which keeps the token as evidence.
Refresh ==
  /\ Idle /\ licence.token # 0
  /\ \/ task' = Step("status", 0, FALSE) /\ UNCHANGED <<licence, adFree>>
     \/ /\ licence' = [licence EXCEPT !.revoked = TRUE]
        /\ adFree' = FALSE /\ UNCHANGED task
  /\ UNCHANGED <<keyring, order, shown, delivered>>

\* A store refuses, or the process ends: the command is gone.
Interrupted ==
  /\ ~Idle /\ Finish
  /\ adFree' \in {adFree, FALSE}
  /\ UNCHANGED <<licence, keyring, order, shown, delivered>>

SupporterNext ==
  \/ GetStatus \/ ContinueCheckout \/ SaveCheckoutSecret \/ SaveClaim
  \/ PollCompleted \/ SaveRecoveryCode \/ SaveLicence \/ ClearCheckoutSecret \/ Report
  \/ PollUnpaid \/ DropSecret \/ ActivateSaveCode \/ ActivateSaveLicence
  \/ Refresh \/ Interrupted
  \/ \E o \in Orders : Pay(o) \/ CloseOrder(o) \/ BeginCheckout(o)
  \/ \E p \in Purchases : Activate(p)

SupporterSpec == SupporterInit /\ [][SupporterNext]_supporterVars

-----------------------------------------------------------------------------
SupporterTypeOK ==
  /\ licence \in [token : Purchases \cup {0}, claim : Orders \cup {0}, revoked : BOOLEAN]
  /\ keyring \in [recovery : Purchases \cup {0}, secret : Orders \cup {0}]
  /\ order \in [Orders -> {"none", "open", "paid", "closed"}]
  /\ shown \subseteq Orders /\ delivered \subseteq Orders /\ adFree \in BOOLEAN
  /\ task \in [pc : {"idle", "saveSecret", "saveClaim", "saveCode", "saveLicence", "clearSecret", "status",
                     "dropSecret", "activateCode", "activateLicence"},
              order : Purchases \cup {0}, code : BOOLEAN]

(***************************************************************************)
(* "do not pay again": the application never gives out the link of a new   *)
(* order while an earlier one was paid or may still be, whatever was lost  *)
(* between the stores (ensure_new_checkout_allowed, confirmed_unpaid).     *)
(***************************************************************************)
NeverPaysTwice ==
  \A o, p \in shown : o # p => order[o] = "closed" \/ order[p] = "closed"

(***************************************************************************)
(* A payment is never forgotten: until its token or its recovery code has  *)
(* been stored, the claim and the secret that fetch them are both kept     *)
(* (commit_completed_checkout and the order of its writes).                *)
(***************************************************************************)
PaymentNotForgotten ==
  \A o \in Orders :
    (order[o] = "paid" /\ o \notin delivered) => licence.claim = o /\ keyring.secret = o

\* A link that was shown belongs to an order, and an order still open, or paid
\* with nothing delivered, is the pending claim and its secret.
ClaimKept ==
  /\ \A o \in shown : order[o] # "none"
  /\ \A o \in shown : order[o] = "open" => licence.claim = o /\ keyring.secret = o
  /\ \A o \in Orders : order[o] = "paid" => o \in shown
  /\ licence.claim # 0 => licence.claim \in shown

\* What was delivered leaves a token or a recovery code for good, which keeps
\* the application from another checkout.
PurchaseKept == delivered # {} => licence.token # 0 \/ keyring.recovery # 0

\* What the command in progress knows at each of its writes.
TaskSound ==
  /\ task.pc \in {"saveSecret", "saveClaim"} =>
       /\ task.order \in Orders /\ order[task.order] # "none"
       /\ licence.claim = 0 /\ \A o \in shown : order[o] = "closed"
       /\ task.pc = "saveClaim" => keyring.secret = task.order
  /\ task.pc \in {"saveCode", "saveLicence"} =>
       task.order \in Orders /\ order[task.order] = "paid" /\ licence.claim = task.order
  /\ task.pc \in {"clearSecret", "dropSecret"} => licence.claim = 0
  /\ task.pc \in {"activateCode", "activateLicence"} => task.order # 0

(* The customer's payments, over lost answers and failing stores.          *)
SupporterInv ==
  /\ SupporterTypeOK /\ NeverPaysTwice /\ PaymentNotForgotten
  /\ ClaimKept /\ PurchaseKept /\ TaskSound
=============================================================================
