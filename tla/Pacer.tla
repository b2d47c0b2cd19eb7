------------------------------- MODULE Pacer -------------------------------
(***************************************************************************)
(* One lane of the content pacer (traffic.rs): transfers of one direction  *)
(* queue for their turn at the rate of the policy in force.  The policy is *)
(* read anew on every poll; the first poll that sees another one empties   *)
(* the queue, and the transfers that held a place in it join again.  A     *)
(* transfer polls at least every 250 ms, so a lost wake-up only delays it. *)
(***************************************************************************)
EXTENDS Naturals, Sequences, SequencesExt

CONSTANTS PacedTransfers,
          Slow,         \* policies that limit the rate, to their ticks per part
          MaxSwitches,  \* bound: changes of the policy in force
          MaxQueued,    \* entries a lane takes (512 in the code)
          MaxTicket     \* bound: the last identifier of a lane

\* One of the limiting policies is the slowest.
ASSUME PacerAssumption ==
  /\ \A p \in DOMAIN Slow : Slow[p] \in Nat \ {0}
  /\ \E p \in DOMAIN Slow : \A q \in DOMAIN Slow : Slow[q] <= Slow[p]
  /\ MaxSwitches \in Nat /\ MaxQueued \in Nat /\ MaxTicket \in Nat

VARIABLES
  policy,       \* what config and the schedule windows say now
  switches,
  lane,         \* the lane: policy seen last, queue of ids, next id
  cursorAge,    \* time since lane.cursor, up to the longest part
  waits,        \* Transfer -> [on, id, policy]: waiting, and its ticket
  joinedAge,    \* time since the transfer joined the queue
  grantedAge    \* time since the last grant in this lane

pacerVars == <<policy, switches, lane, cursorAge, waits, joinedAge, grantedAge>>

Policies == DOMAIN Slow \cup {"free", "pause"}
Longest == CHOOSE d \in {Slow[p] : p \in DOMAIN Slow} :
             \A p \in DOMAIN Slow : Slow[p] <= d
Older(n) == IF n < Longest THEN n + 1 ELSE n
NoTicket == [on |-> FALSE, id |-> 0, policy |-> "free"]

PacerInit ==
  /\ policy \in Policies /\ switches = 0
  /\ lane = [policy |-> "free", queue |-> <<>>, next |-> 0]
  /\ cursorAge = 0 /\ grantedAge = Longest
  /\ waits = [t \in PacedTransfers |-> NoTicket]
  /\ joinedAge = [t \in PacedTransfers |-> 0]

\* A window of the schedule opens or closes, or the settings are saved.
PolicyChanges ==
  /\ switches < MaxSwitches
  /\ policy' \in Policies \ {policy}
  /\ switches' = switches + 1
  /\ UNCHANGED <<lane, cursorAge, waits, joinedAge, grantedAge>>

PacerClock ==
  /\ cursorAge' = Older(cursorAge) /\ grantedAge' = Older(grantedAge)
  /\ joinedAge' = [t \in PacedTransfers |-> Older(joinedAge[t])]
  /\ UNCHANGED <<policy, switches, lane, waits>>

StartWait(t) ==
  /\ ~waits[t].on
  /\ waits' = [waits EXCEPT ![t] = [NoTicket EXCEPT !.on = TRUE]]
  /\ UNCHANGED <<policy, switches, lane, cursorAge, joinedAge, grantedAge>>

\* The lane as a poll finds it: emptied when the policy is another one.
Seen == IF lane.policy = policy THEN lane
        ELSE [lane EXCEPT !.policy = policy, !.queue = <<>>]
SeenAge == IF lane.policy = policy THEN cursorAge ELSE 0

HoldsPlace(t) ==
  waits[t].policy = policy /\ waits[t].id \in Range(Seen.queue)

\* Paused: the ticket is given up, the transfer polls again later.
PollPaused(t) ==
  /\ waits[t].on /\ policy = "pause"
  /\ lane' = Seen /\ cursorAge' = SeenAge
  /\ waits' = [waits EXCEPT ![t] = [NoTicket EXCEPT !.on = TRUE]]
  /\ UNCHANGED <<policy, switches, joinedAge, grantedAge>>

\* Unlimited: the transfer goes on at once.
PollFree(t) ==
  /\ waits[t].on /\ policy = "free"
  /\ lane' = Seen /\ cursorAge' = SeenAge
  /\ waits' = [waits EXCEPT ![t] = NoTicket]
  /\ UNCHANGED <<policy, switches, joinedAge, grantedAge>>

\* The time an idle lane has been idle counts for its next transfer.
AgeOnJoinIdle(q) == SeenAge
\* A transfer that finds the queue empty starts the cursor now.
AgeOnJoin(q) == IF q = <<>> THEN 0 ELSE SeenAge

\* A transfer without a place joins the end of the queue.
PollJoin(t) ==
  /\ waits[t].on /\ policy \in DOMAIN Slow /\ ~HoldsPlace(t)
  /\ Len(Seen.queue) < MaxQueued /\ Seen.next < MaxTicket
  /\ lane' = [Seen EXCEPT !.next = @ + 1, !.queue = Append(@, Seen.next + 1)]
  /\ cursorAge' = AgeOnJoin(Seen.queue)
  /\ waits' = [waits EXCEPT ![t] = [on |-> TRUE, id |-> Seen.next + 1, policy |-> policy]]
  /\ joinedAge' = [joinedAge EXCEPT ![t] = 0]
  /\ UNCHANGED <<policy, switches, grantedAge>>

\* The queue or the identifiers are exhausted: the wait ends with an error.
PollRefused(t) ==
  /\ waits[t].on /\ policy \in DOMAIN Slow /\ ~HoldsPlace(t)
  /\ Len(Seen.queue) >= MaxQueued \/ Seen.next >= MaxTicket
  /\ lane' = Seen /\ cursorAge' = SeenAge
  /\ waits' = [waits EXCEPT ![t] = NoTicket]
  /\ UNCHANGED <<policy, switches, joinedAge, grantedAge>>

\* The head of the queue whose time has come is granted.
PollGranted(t) ==
  /\ waits[t].on /\ policy \in DOMAIN Slow /\ HoldsPlace(t)
  /\ Head(Seen.queue) = waits[t].id /\ SeenAge >= Slow[policy]
  /\ lane' = [Seen EXCEPT !.queue = Tail(@)]
  /\ cursorAge' = 0 /\ grantedAge' = 0
  /\ waits' = [waits EXCEPT ![t] = NoTicket]
  /\ UNCHANGED <<policy, switches, joinedAge>>

\* The ticket is of the policy the lane has seen, and still queued.
OwnsPlace(t) == waits[t].policy = lane.policy /\ waits[t].id \in Range(lane.queue)
Position(t) == CHOOSE i \in DOMAIN lane.queue : lane.queue[i] = waits[t].id

\* Only the head's departure restarts the cursor.
AgeOnLeave(t) == IF Position(t) = 1 THEN 0 ELSE cursorAge

\* A cancelled transfer forgets its place in the queue.
AbandonInPlace(t) ==
  /\ waits[t].on
  /\ waits' = [waits EXCEPT ![t] = NoTicket]
  /\ UNCHANGED <<policy, switches, lane, cursorAge, joinedAge, grantedAge>>

\* The transfer is cancelled, or its account signed out: the ticket is dropped.
Abandon(t) ==
  /\ waits[t].on
  /\ IF OwnsPlace(t)
     THEN /\ lane' = [lane EXCEPT !.queue = RemoveAt(lane.queue, Position(t))]
          /\ cursorAge' = AgeOnLeave(t)
     ELSE UNCHANGED <<lane, cursorAge>>
  /\ waits' = [waits EXCEPT ![t] = NoTicket]
  /\ UNCHANGED <<policy, switches, joinedAge, grantedAge>>

Poll(t) ==
  PollPaused(t) \/ PollFree(t) \/ PollJoin(t) \/ PollRefused(t) \/ PollGranted(t)

PacerNext ==
  \/ PolicyChanges \/ PacerClock
  \/ \E t \in PacedTransfers : StartWait(t) \/ Poll(t) \/ Abandon(t)

PacerSpec == PacerInit /\ [][PacerNext]_pacerVars

-----------------------------------------------------------------------------
PacerTypeOK ==
  /\ policy \in Policies /\ lane.policy \in Policies /\ switches \in 0..MaxSwitches
  /\ lane.queue \in Seq(1..MaxTicket) /\ Len(lane.queue) <= MaxQueued
  /\ lane.next \in 0..MaxTicket /\ IsInjective(lane.queue)
  /\ {cursorAge, grantedAge} \subseteq 0..Longest
  /\ waits \in [PacedTransfers -> [on : BOOLEAN, id : 0..MaxTicket, policy : Policies]]

(***************************************************************************)
(* No burst: a part is let through only a full part's time after the one   *)
(* before it and a full part's time after it asked, whatever cancellations *)
(* and policy changes happened meanwhile; idle time is never saved up      *)
(* (Pacer::wait and the Drop of Ticket).                                   *)
(***************************************************************************)
NoBurst ==
  [][\A t \in PacedTransfers :
       (PollGranted(t) /\ waits'[t] # waits[t]) =>
         grantedAge >= Slow[policy] /\ joinedAge[t] >= Slow[policy]]_pacerVars

(***************************************************************************)
(* Nobody waits for ever: unless the lane ends up paused, every wait ends; *)
(* no cancelled transfer and no ticket of an older policy blocks the head  *)
(* of the queue.                                                           *)
(***************************************************************************)
WaitsEnd ==
  <>[](policy # "pause") =>
    \A t \in PacedTransfers : []<>~waits[t].on
=============================================================================
