----------------------------- MODULE Bandwidth -----------------------------
(***************************************************************************)
(* Weekly transfer-quota accounting: BandwidthManager and the RAII         *)
(* BandwidthReservation of app/src-tauri/src/bandwidth.rs.                 *)
(*                                                                         *)
(* Every transfer path (uploads, downloads, streaming, WebDAV, REST, asset *)
(* fetches) reserves its declared bytes before it moves them, and commits  *)
(* or drops the reservation when it ends.  Holds live in memory; committed *)
(* bytes are written to bandwidth.json by an atomic replace.  All methods  *)
(* run under one mutex, so each is one action; the interleavings are those *)
(* of many reservations, the clock, disk failures and process restarts.    *)
(*                                                                         *)
(* Dates are abstracted to the number of their week: the code compares     *)
(* dates only through week_start_for.                                      *)
(***************************************************************************)
EXTENDS Integers, FiniteSets, Functions

CONSTANTS
    MaxIds,       \* bound on the reservations of one process (next_id)
    Sizes,        \* declared payload sizes a caller may reserve
    Limits,       \* weekly limits a user may set
    DefaultLimit, \* WEEKLY_LIMIT_BYTES
    MaxHolds,     \* 512 in reserve()
    MaxU64,       \* largest value of the counters (u64::MAX)
    Weeks         \* the weeks the wall clock may show

ASSUME BandwidthAssumption ==
    /\ MaxIds \in Nat
    /\ MaxU64 \in Nat
    /\ Sizes \subseteq 0..MaxU64
    /\ Limits \subseteq 1..MaxU64
    /\ DefaultLimit \in 1..MaxU64
    /\ MaxHolds \in Nat
    /\ Weeks \subseteq Nat

VARIABLES
    clock,            \* the current week (Local::now)
    stats,            \* Accounting.stats
    limit,            \* BandwidthManager.limit (an atomic beside the mutex)
    holds,            \* Accounting.holds: a function from live ids
    next_id,          \* Accounting.next_id
    persistence_error,\* Accounting.persistence_error
    load_error,       \* Accounting.load_error
    disk,             \* bandwidth.json: a set with at most one stats record
    readable          \* whether bandwidth.json can be read and parsed

vars == <<clock, stats, limit, holds, next_id, persistence_error, load_error,
          disk, readable>>

Ids == 1..MaxIds
Directions == {"Upload", "Download"}
Error == {"None", "Some"}   \* an Option<String>
Hold == [bytes : 0..MaxU64, direction : Directions]
BandwidthStats == [week : Weeks, up : 0..MaxU64, down : 0..MaxU64,
                   limit : 1..MaxU64]

(* BandwidthStats::default(): an empty record for the current week. *)
DefaultStats(week) ==
    [week |-> week, up |-> 0, down |-> 0, limit |-> DefaultLimit]

(***************************************************************************)
(* used(): committed bytes plus every admission hold.  The sum of the      *)
(* holds is the number of bytes held, every byte told apart by its hold.   *)
(***************************************************************************)
HeldBytes(h) == UNION {{id} \X (1..h[id].bytes) : id \in DOMAIN h}
Held(h) == Cardinality(HeldBytes(h))
Used(s, h) == s.up + s.down + Held(h)

(***************************************************************************)
(* persist(): an atomic replace of the file, which may fail.  On failure   *)
(* the file keeps its content and persistence_error remembers that memory  *)
(* is ahead of it.  A result r carries the manager's fields and whether    *)
(* the method may go on.                                                   *)
(***************************************************************************)
Persist(r, s, saved) ==
    [r EXCEPT !.stats = s, !.disk = IF saved THEN {s} ELSE @,
              !.perror = IF saved THEN "None" ELSE "Some",
              !.result = IF saved THEN "Ok" ELSE "Err"]

(***************************************************************************)
(* prepare(): what every method does first.  A manager whose file could    *)
(* not be read tries again; a clock behind the recorded week is refused;   *)
(* a new week clears the committed counters; a change, or an earlier       *)
(* failure, is written out.                                                *)
(***************************************************************************)
Rolled(s, lim) ==
    [week |-> clock, limit |-> lim,
     up   |-> IF s.week < clock THEN 0 ELSE s.up,
     down |-> IF s.week < clock THEN 0 ELSE s.down]

Prepare(saved) ==
    LET reloads == load_error = "Some" /\ readable /\ disk # {}
        base == IF reloads THEN CHOOSE s \in disk : TRUE ELSE stats
        lim == IF reloads THEN base.limit ELSE limit
        rolled == Rolled(base, lim)
        loaded == [stats |-> base, limit |-> lim, disk |-> disk,
                   perror |-> persistence_error,
                   lerror |-> IF reloads THEN "None" ELSE load_error,
                   result |-> "Ok"]
    IN  IF loaded.lerror = "Some" \/ base.week > clock
        THEN [loaded EXCEPT !.result = "Err"]
        ELSE IF rolled # base \/ persistence_error = "Some"
             THEN Persist(loaded, rolled, saved)
             ELSE loaded

(* The state after a method that did nothing beyond prepare(). *)
Adopt(p) ==
    /\ stats' = p.stats
    /\ limit' = p.limit
    /\ disk' = p.disk
    /\ persistence_error' = p.perror
    /\ load_error' = p.lerror

Init ==
    /\ clock \in Weeks
    /\ readable = TRUE
    /\ disk = {}
    /\ stats = DefaultStats(clock)
    /\ limit = DefaultLimit
    /\ holds = [i \in {} |-> 0]
    /\ next_id = 0
    /\ persistence_error = "None"
    /\ load_error = "None"

(***************************************************************************)
(* reserve(): admission.  The booleans say whether prepare()'s write and   *)
(* the method's own write reach the disk; the hold exists only if both     *)
(* did.                                                                    *)
(***************************************************************************)
Admits(p, bytes) ==
    /\ Used(p.stats, holds) + bytes <= MaxU64
    /\ Used(p.stats, holds) + bytes <= p.stats.limit
    /\ Cardinality(DOMAIN holds) < MaxHolds

AddHold(id, hold) ==
    [i \in DOMAIN holds \cup {id} |-> IF i = id THEN hold ELSE holds[i]]

Reserve(direction, bytes, prepared, saved) ==
    LET p == Prepare(prepared)
        admitted == p.result = "Ok" /\ Admits(p, bytes)
        id == next_id + 1
    IN
    /\ id \in Ids
    /\ Adopt(IF admitted THEN Persist(p, p.stats, saved) ELSE p)
    /\ next_id' = IF admitted /\ saved THEN id ELSE next_id
    /\ holds' = IF admitted /\ saved
                THEN AddHold(id, [bytes |-> bytes, direction |-> direction])
                ELSE holds
    /\ UNCHANGED <<clock, readable>>

(* release(): the reservation is dropped without commit. *)
Release(id) ==
    /\ holds' = Restrict(holds, DOMAIN holds \ {id})
    /\ UNCHANGED <<clock, stats, limit, next_id, persistence_error, load_error,
                   disk, readable>>

(* resize(): a caller learns the real size of what it reserved. *)
Resizable(p, id, bytes) ==
    LET total == Used(p.stats, holds) - holds[id].bytes + bytes IN
    /\ total <= MaxU64
    /\ bytes > holds[id].bytes => total <= p.stats.limit

Resize(id, bytes, prepared, saved) ==
    LET p == Prepare(prepared)
        resized == p.result = "Ok" /\ Resizable(p, id, bytes)
    IN
    /\ Adopt(IF resized THEN Persist(p, p.stats, saved) ELSE p)
    /\ holds' = IF resized /\ saved THEN [holds EXCEPT ![id].bytes = bytes]
                ELSE holds
    /\ UNCHANGED <<clock, next_id, readable>>

(***************************************************************************)
(* commit(): the transfer succeeded.  prepare()'s failure is ignored, the  *)
(* hold becomes committed use, and the result is written out.  An overflow *)
(* would be reported after the hold was already removed.                   *)
(***************************************************************************)
Charge(s, hold) ==
    IF hold.direction = "Upload"
    THEN [s EXCEPT !.up = @ + hold.bytes]
    ELSE [s EXCEPT !.down = @ + hold.bytes]

Commit(id, prepared, saved) ==
    LET p == Prepare(prepared)
        charged == Charge(p.stats, holds[id])
    IN
    /\ holds' = Restrict(holds, DOMAIN holds \ {id})
    /\ Adopt(IF charged.up <= MaxU64 /\ charged.down <= MaxU64
             THEN Persist(p, charged, saved) ELSE p)
    /\ UNCHANGED <<clock, next_id, readable>>

(* set_limit(): memory is restored when the new limit cannot be saved. *)
SetLimit(bytes, prepared, saved) ==
    LET p == Prepare(prepared) IN
    /\ Adopt(IF p.result = "Err" THEN p
             ELSE IF ~saved THEN [p EXCEPT !.perror = "Some"]
             ELSE [Persist(p, [p.stats EXCEPT !.limit = bytes], TRUE)
                     EXCEPT !.limit = bytes])
    /\ UNCHANGED <<clock, holds, next_id, readable>>

(* check_and_reset(), checked_stats() and get_stats(): prepare() only. *)
ReadStats(prepared) ==
    /\ Adopt(Prepare(prepared))
    /\ UNCHANGED <<clock, holds, next_id, readable>>

(* Seeded fault: an unreadable file starts a fresh quota window. *)
AtStartsFresh ==
    /\ stats' = IF readable /\ disk # {} THEN CHOOSE s \in disk : TRUE
                ELSE DefaultStats(clock)
    /\ limit' = stats'.limit
    /\ holds' = [i \in {} |-> 0]
    /\ next_id' = 0
    /\ persistence_error' = "None"
    /\ load_error' = "None"
    /\ UNCHANGED <<clock, disk, readable>>

(***************************************************************************)
(* The environment: the wall clock moves, forwards or backwards; the file  *)
(* becomes unreadable or readable again; the process ends and at() loads   *)
(* what the file holds.  Holds die with the process.                       *)
(***************************************************************************)
ClockMoves ==
    /\ clock' \in Weeks \ {clock}
    /\ UNCHANGED <<stats, limit, holds, next_id, persistence_error, load_error,
                   disk, readable>>

ReadabilityChanges ==
    /\ disk # {}
    /\ readable' = ~readable
    /\ UNCHANGED <<clock, stats, limit, holds, next_id, persistence_error,
                   load_error, disk>>

At ==
    LET loaded == IF disk = {} \/ ~readable THEN DefaultStats(clock)
                  ELSE CHOOSE s \in disk : TRUE
    IN
    /\ stats' = loaded
    /\ limit' = loaded.limit
    /\ holds' = [i \in {} |-> 0]
    /\ next_id' = 0
    /\ persistence_error' = "None"
    /\ load_error' = IF disk # {} /\ ~readable THEN "Some" ELSE "None"
    /\ UNCHANGED <<clock, disk, readable>>

Next ==
    \/ \E prepared, saved \in BOOLEAN :
        \/ \E d \in Directions, b \in Sizes : Reserve(d, b, prepared, saved)
        \/ \E id \in DOMAIN holds, b \in Sizes : Resize(id, b, prepared, saved)
        \/ \E id \in DOMAIN holds : Commit(id, prepared, saved)
        \/ \E b \in Limits : SetLimit(b, prepared, saved)
    \/ \E prepared \in BOOLEAN : ReadStats(prepared)
    \/ \E id \in DOMAIN holds : Release(id)
    \/ ClockMoves
    \/ ReadabilityChanges
    \/ At

Spec == Init /\ [][Next]_vars

-----------------------------------------------------------------------------
(* Types of the accounting state. *)
TypeOK ==
    /\ clock \in Weeks
    /\ stats \in BandwidthStats
    /\ limit \in 1..MaxU64
    /\ DOMAIN holds \subseteq Ids
    /\ holds \in [DOMAIN holds -> Hold]
    /\ next_id \in Nat
    /\ persistence_error \in Error
    /\ load_error \in Error
    /\ disk = {} \/ \E s \in BandwidthStats : disk = {s}
    /\ readable \in BOOLEAN

(***************************************************************************)
(* a records no less use than b: a later week, or the same week with       *)
(* counters at least as large.                                             *)
(***************************************************************************)
NoLess(a, b) ==
    \/ a.week > b.week
    \/ a.week = b.week /\ a.up >= b.up /\ a.down >= b.down

(***************************************************************************)
(* A manager that has read its file never holds less than the file does,   *)
(* whatever writes failed, whatever the clock did; so no later write can   *)
(* erase recorded use.                                                     *)
(***************************************************************************)
MemoryNotBehindDisk ==
    load_error = "None" => \A s \in disk : NoLess(stats, s)

(***************************************************************************)
(* With no persistence error pending, a crash loses no committed byte: the *)
(* file holds exactly what memory holds (or nothing was ever used).        *)
(***************************************************************************)
QuietMeansDurable ==
    persistence_error = "None" /\ load_error = "None" =>
        \/ disk = {stats}
        \/ disk = {} /\ stats.up = 0 /\ stats.down = 0

(***************************************************************************)
(* A manager that could not read its accounting file admits nothing: it    *)
(* has no holds, so no commit can write over the file it has not read.     *)
(***************************************************************************)
UnreadAdmitsNothing == load_error = "Some" => DOMAIN holds = {}

(***************************************************************************)
(* Committed and held bytes together always fit the counters, across week  *)
(* rollovers, lowered limits and resizes: so no commit overflows after its *)
(* hold is gone, and no file is written that load() would call invalid.    *)
(***************************************************************************)
ChargesFit ==
    /\ Used(stats, holds) <= MaxU64
    /\ \A s \in disk : s.up + s.down <= MaxU64

(***************************************************************************)
(* Use recorded in bandwidth.json is never lost: across failed writes,     *)
(* restarts, unreadable files and clock changes the recorded week never    *)
(* goes back and within a week the counters never shrink.                  *)
(***************************************************************************)
RecordedUseNeverLost ==
    [][\A s \in disk : \E t \in disk' : NoLess(t, s)]_vars

(***************************************************************************)
(* What holds of the manager and its file in every state.                  *)
(***************************************************************************)
BandwidthInv ==
    TypeOK /\ MemoryNotBehindDisk /\ QuietMeansDurable /\ UnreadAdmitsNothing
=============================================================================
