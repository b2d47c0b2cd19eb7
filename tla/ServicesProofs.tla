--------------------------- MODULE ServicesProofs ---------------------------
(***************************************************************************)
(* Proofs about the background services: the transfer quota (Bandwidth),   *)
(* the traffic pacer (Pacer), the restarts of a local server               *)
(* (ServerLifecycle) and the sessions of an open vault (VaultSessions),    *)
(* each for every value of its constants.                                  *)
(*                                                                         *)
(* The quota first, for every week, size, limit and bound.  The            *)
(* inductive invariant IInv joins the type invariant with what a manager   *)
(* that read its file knows (memory is not behind the file), what a quiet  *)
(* manager guarantees, and that a manager that could not read its file     *)
(* holds no reservation.  The last part is what makes it inductive: commit *)
(* ignores a failed prepare(), so it may only run on a manager whose       *)
(* memory was loaded.                                                      *)
(***************************************************************************)
EXTENDS ServicesPromises, FiniteSetTheorems, SequenceTheorems, TLAPS

(* The results of Persist and Prepare, and what is known of them. *)
Result ==
    [stats : BandwidthStats, limit : 1..MaxU64, disk : SUBSET BandwidthStats,
     perror : Error, lerror : Error, result : {"Ok", "Err"}]

ResultOK(r) ==
    /\ r \in Result
    /\ r.disk = {} \/ \E t \in BandwidthStats : r.disk = {t}
    /\ r.lerror = "None" => \A t \in r.disk : NoLess(r.stats, t)
    /\ r.perror = "None" /\ r.lerror = "None" =>
          \/ r.disk = {r.stats}
          \/ r.disk = {} /\ r.stats.up = 0 /\ r.stats.down = 0

(* Every use recorded in d is recorded in e. *)
Keeps(d, e) == \A s \in d : \E t \in e : NoLess(t, s)

IInv ==
    /\ TypeOK
    /\ MemoryNotBehindDisk
    /\ QuietMeansDurable
    /\ UnreadAdmitsNothing

(* The counters of a stats record are natural numbers. *)
LEMMA StatsFields ==
    ASSUME NEW s \in BandwidthStats
    PROVE  /\ s.week \in Nat
           /\ s.up \in Nat
           /\ s.down \in Nat
  <1>1. s.week \in Nat
    BY BandwidthAssumption DEF BandwidthAssumption, BandwidthStats
  <1>2. s.up \in 0..MaxU64 /\ s.down \in 0..MaxU64
    BY DEF BandwidthStats
  <1>3. MaxU64 \in Nat
    BY BandwidthAssumption DEF BandwidthAssumption
  <1> QED BY <1>1, <1>2, <1>3

(* NoLess is reflexive. *)
LEMMA NoLessReflexive ==
    ASSUME NEW s \in BandwidthStats
    PROVE  NoLess(s, s)
  BY StatsFields DEF NoLess

(* NoLess is transitive. *)
LEMMA NoLessTransitive ==
    ASSUME NEW r \in BandwidthStats, NEW s \in BandwidthStats,
           NEW t \in BandwidthStats, NoLess(r, s), NoLess(s, t)
    PROVE  NoLess(r, t)
  <1>1. r.week \in Nat /\ r.up \in Nat /\ r.down \in Nat
    BY StatsFields
  <1>2. s.week \in Nat /\ s.up \in Nat /\ s.down \in Nat
    BY StatsFields
  <1>3. t.week \in Nat /\ t.up \in Nat /\ t.down \in Nat
    BY StatsFields
  <1> QED BY <1>1, <1>2, <1>3 DEF NoLess

(* A set of stats records keeps its own content. *)
LEMMA KeepsItself ==
    ASSUME NEW d \in SUBSET BandwidthStats
    PROVE  Keeps(d, d)
  BY NoLessReflexive DEF Keeps

(***************************************************************************)
(* Writing stats that record no less than the file leaves a good result,   *)
(* whether the write reached the disk or not.                              *)
(***************************************************************************)
LEMMA PersistOK ==
    ASSUME NEW r \in Result, NEW s \in BandwidthStats, NEW saved \in BOOLEAN,
           r.disk = {} \/ \E t \in BandwidthStats : r.disk = {t},
           r.lerror = "None",
           \A t \in r.disk : NoLess(s, t)
    PROVE  /\ ResultOK(Persist(r, s, saved))
           /\ Keeps(r.disk, Persist(r, s, saved).disk)
           /\ Persist(r, s, saved).lerror = "None"
           /\ Persist(r, s, saved).limit = r.limit
           /\ Persist(r, s, saved).stats = s
  <1>1. CASE saved
    <2>1. Persist(r, s, saved) =
            [r EXCEPT !.stats = s, !.disk = {s}, !.perror = "None",
                      !.result = "Ok"]
      BY <1>1 DEF Persist
    <2>2. Persist(r, s, saved) \in Result
      <3>1. {s} \in SUBSET BandwidthStats OBVIOUS
      <3> QED BY <2>1, <3>1 DEF Result, Error
    <2> QED BY <2>1, <2>2, NoLessReflexive DEF ResultOK, Result, Keeps
  <1>2. CASE ~saved
    <2>1. Persist(r, s, saved) =
            [r EXCEPT !.stats = s, !.disk = @, !.perror = "Some",
                      !.result = "Err"]
      BY <1>2 DEF Persist
    <2>2. Persist(r, s, saved) \in Result
      BY <2>1 DEF Result, Error
    <2>3. Keeps(r.disk, r.disk)
      BY KeepsItself DEF Result
    <2> QED BY <2>1, <2>2, <2>3 DEF ResultOK, Result
  <1> QED BY <1>1, <1>2

(***************************************************************************)
(* prepare(): rolling over to the current week never records less than     *)
(* memory does.                                                            *)
(***************************************************************************)
LEMMA RolledNoLess ==
    ASSUME NEW s \in BandwidthStats, NEW lim \in 1..MaxU64,
           clock \in Weeks, ~(s.week > clock)
    PROVE  Rolled(s, lim) \in BandwidthStats /\ NoLess(Rolled(s, lim), s)
  <1>1. s.week \in Nat /\ s.up \in Nat /\ s.down \in Nat /\ clock \in Nat
    BY StatsFields, BandwidthAssumption DEF BandwidthAssumption
  <1>2. Rolled(s, lim) \in BandwidthStats
    <2>1. MaxU64 \in Nat
      BY BandwidthAssumption DEF BandwidthAssumption
    <2>2. s.up \in 0..MaxU64 /\ s.down \in 0..MaxU64
      BY DEF BandwidthStats
    <2> QED BY <2>1, <2>2 DEF Rolled, BandwidthStats
  <1>3. NoLess(Rolled(s, lim), s)
    BY <1>1 DEF NoLess, Rolled
  <1> QED BY <1>2, <1>3

(***************************************************************************)
(* prepare() leaves a good result from every good state: it either loads   *)
(* the file, or keeps what memory held, or rolls it over.                  *)
(***************************************************************************)
LEMMA PrepareOK ==
    ASSUME IInv, NEW saved \in BOOLEAN
    PROVE  /\ ResultOK(Prepare(saved))
           /\ Keeps(disk, Prepare(saved).disk)
           /\ Prepare(saved).lerror = "Some" => load_error = "Some"
           /\ Prepare(saved).result = "Ok" => Prepare(saved).lerror = "None"
  <1> DEFINE reloads == load_error = "Some" /\ readable /\ disk # {}
             base == IF reloads THEN CHOOSE s \in disk : TRUE ELSE stats
             lim == IF reloads THEN base.limit ELSE limit
             rolled == Rolled(base, lim)
             loaded == [stats |-> base, limit |-> lim, disk |-> disk,
                        perror |-> persistence_error,
                        lerror |-> IF reloads THEN "None" ELSE load_error,
                        result |-> "Ok"]
             refused == [loaded EXCEPT !.result = "Err"]
  <1>1. /\ disk \in SUBSET BandwidthStats
        /\ disk = {} \/ \E t \in BandwidthStats : disk = {t}
    BY DEF IInv, TypeOK
  <1>2. base \in BandwidthStats
    BY <1>1 DEF IInv, TypeOK
  <1>3. lim \in 1..MaxU64
    BY <1>2 DEF IInv, TypeOK, BandwidthStats
  <1>4. loaded \in Result
    BY <1>1, <1>2, <1>3 DEF Result, IInv, TypeOK, Error
  <1>5. loaded.lerror = "None" => \A t \in disk : NoLess(base, t)
    <2>1. CASE reloads
      <3>1. PICK t \in BandwidthStats : disk = {t}
        BY <1>1, <2>1
      <3> QED BY <2>1, <3>1, NoLessReflexive
    <2>2. CASE ~reloads
      BY <2>2 DEF IInv, MemoryNotBehindDisk
    <2> QED BY <2>1, <2>2
  <1>6. ResultOK(loaded)
    <2>1. loaded.perror = "None" /\ loaded.lerror = "None" =>
             \/ disk = {base}
             \/ disk = {} /\ base.up = 0 /\ base.down = 0
      <3>1. CASE reloads
        <4>1. PICK t \in BandwidthStats : disk = {t}
          BY <1>1, <3>1
        <4> QED BY <3>1, <4>1
      <3>2. CASE ~reloads
        BY <3>2 DEF IInv, QuietMeansDurable
      <3> QED BY <3>1, <3>2
    <2> QED BY <1>1, <1>4, <1>5, <2>1 DEF ResultOK
  <1>7. Keeps(disk, disk)
    BY <1>1, KeepsItself
  <1>8. loaded.lerror = "Some" => load_error = "Some"
    OBVIOUS
  <1>9. loaded.lerror \in {"None", "Some"}
    BY DEF IInv, TypeOK, Error
  <1>10. CASE loaded.lerror = "Some" \/ base.week > clock
    <2>1. Prepare(saved) = refused
      BY <1>10 DEF Prepare
    <2>2. refused \in Result
      BY <1>4 DEF Result
    <2>3. ResultOK(refused)
      BY <1>6, <2>2 DEF ResultOK
    <2> QED BY <1>7, <1>8, <2>1, <2>3
  <1>11. CASE /\ ~(loaded.lerror = "Some" \/ base.week > clock)
              /\ rolled # base \/ persistence_error = "Some"
    <2>1. Prepare(saved) = Persist(loaded, rolled, saved)
      BY <1>11 DEF Prepare
    <2>2. rolled \in BandwidthStats /\ NoLess(rolled, base)
      BY <1>2, <1>3, <1>11, RolledNoLess DEF IInv, TypeOK
    <2>3. \A t \in loaded.disk : NoLess(rolled, t)
      BY <1>1, <1>2, <1>5, <1>9, <1>11, <2>2, NoLessTransitive
    <2> HIDE DEF loaded, rolled
    <2>4. loaded.disk = disk BY DEF loaded
    <2> QED BY <1>1, <1>4, <1>9, <1>11, <2>1, <2>2, <2>3, <2>4, PersistOK
  <1>12. CASE /\ ~(loaded.lerror = "Some" \/ base.week > clock)
              /\ ~(rolled # base \/ persistence_error = "Some")
    <2>1. Prepare(saved) = loaded
      BY <1>12 DEF Prepare
    <2> QED BY <1>6, <1>7, <1>8, <1>9, <1>12, <2>1
  <1> QED BY <1>10, <1>11, <1>12

(***************************************************************************)
(* Adopting a good result into the manager preserves the invariant and the *)
(* recorded use, when the reservations it leaves are well typed.           *)
(***************************************************************************)
LEMMA AdoptOK ==
    ASSUME IInv, NEW r, ResultOK(r), Keeps(disk, r.disk), Adopt(r),
           r.lerror = "Some" => DOMAIN holds' = {},
           clock' = clock, readable' = readable, next_id' \in Nat,
           DOMAIN holds' \subseteq Ids, holds' \in [DOMAIN holds' -> Hold]
    PROVE  IInv' /\ Keeps(disk, disk')
  <1>1. TypeOK'
    BY DEF IInv, TypeOK, Adopt, ResultOK, Result
  <1>2. MemoryNotBehindDisk' /\ QuietMeansDurable'
    BY DEF MemoryNotBehindDisk, QuietMeansDurable, Adopt, ResultOK, NoLess
  <1>3. UnreadAdmitsNothing' /\ Keeps(disk, disk')
    BY DEF UnreadAdmitsNothing, Adopt
  <1> QED BY <1>1, <1>2, <1>3 DEF IInv

(* The initial state satisfies the invariant. *)
LEMMA InitOK == Init => IInv
  <1> SUFFICES ASSUME Init PROVE IInv
    OBVIOUS
  <1>1. DefaultStats(clock) \in BandwidthStats
    BY BandwidthAssumption
    DEF BandwidthAssumption, Init, DefaultStats, BandwidthStats
  <1>2. TypeOK
    BY <1>1, BandwidthAssumption DEF BandwidthAssumption, Init, TypeOK, Error,
       BandwidthStats
  <1>3. stats.up = 0 /\ stats.down = 0
    BY DEF Init, DefaultStats
  <1> QED BY <1>2, <1>3 DEF Init, IInv, MemoryNotBehindDisk, QuietMeansDurable,
       UnreadAdmitsNothing

(***************************************************************************)
(* A method that writes stats recording no less than prepare() left leaves *)
(* a good result, and keeps what the file held before the method.          *)
(***************************************************************************)
LEMMA PersistAfterPrepare ==
    ASSUME IInv, NEW prepared \in BOOLEAN, NEW saved \in BOOLEAN,
           NEW p, p = Prepare(prepared), p.lerror = "None",
           NEW s \in BandwidthStats, NoLess(s, p.stats)
    PROVE  /\ ResultOK(Persist(p, s, saved))
           /\ Keeps(disk, Persist(p, s, saved).disk)
           /\ Persist(p, s, saved).lerror = "None"
  <1>1. ResultOK(p) /\ Keeps(disk, p.disk)
    BY PrepareOK
  <1>2. p \in Result /\ p.stats \in BandwidthStats
        /\ p.disk \in SUBSET BandwidthStats
    BY <1>1 DEF ResultOK, Result
  <1>3. \A t \in p.disk : NoLess(s, t)
    <2>1. \A t \in p.disk : NoLess(p.stats, t)
      BY <1>1 DEF ResultOK
    <2> QED BY <1>2, <2>1, NoLessTransitive
  <1>4. /\ ResultOK(Persist(p, s, saved))
        /\ Keeps(p.disk, Persist(p, s, saved).disk)
        /\ Persist(p, s, saved).lerror = "None"
    BY <1>1, <1>2, <1>3, PersistOK DEF ResultOK
  <1>5. Persist(p, s, saved).disk \in SUBSET BandwidthStats
    BY <1>4 DEF ResultOK, Result
  <1>6. disk \in SUBSET BandwidthStats
    BY DEF IInv, TypeOK
  <1>7. Keeps(disk, Persist(p, s, saved).disk)
    <2> SUFFICES ASSUME NEW d \in disk
                 PROVE  \E t \in Persist(p, s, saved).disk : NoLess(t, d)
      BY DEF Keeps
    <2>1. PICK e \in p.disk : NoLess(e, d)
      BY <1>1 DEF Keeps
    <2>2. PICK t \in Persist(p, s, saved).disk : NoLess(t, e)
      BY <1>4 DEF Keeps
    <2> QED BY <1>2, <1>5, <1>6, <2>1, <2>2, NoLessTransitive
  <1> QED BY <1>4, <1>7

(* Dropping reservations keeps the rest well typed. *)
LEMMA RestrictOK ==
    ASSUME NEW f, NEW d, f \in [DOMAIN f -> Hold], DOMAIN f \subseteq Ids,
           d \subseteq DOMAIN f
    PROVE  /\ DOMAIN Restrict(f, d) \subseteq Ids
           /\ Restrict(f, d) \in [DOMAIN Restrict(f, d) -> Hold]
  BY DEF Restrict

(* A charge records no less use. *)
LEMMA ChargeNoLess ==
    ASSUME NEW s \in BandwidthStats, NEW h \in Hold,
           Charge(s, h).up <= MaxU64, Charge(s, h).down <= MaxU64
    PROVE  Charge(s, h) \in BandwidthStats /\ NoLess(Charge(s, h), s)
  <1>1. MaxU64 \in Nat
    BY BandwidthAssumption DEF BandwidthAssumption
  <1>2. s.week \in Nat /\ s.up \in 0..MaxU64 /\ s.down \in 0..MaxU64
    BY StatsFields DEF BandwidthStats
  <1>3. h.bytes \in 0..MaxU64
    BY DEF Hold
  <1>4. CASE h.direction = "Upload"
    <2>1. Charge(s, h) = [s EXCEPT !.up = @ + h.bytes]
      BY <1>4 DEF Charge
    <2>2. s.up + h.bytes \in 0..MaxU64
      BY <1>1, <1>2, <1>3, <2>1 DEF BandwidthStats
    <2> QED BY <1>1, <1>2, <1>3, <2>1, <2>2 DEF BandwidthStats, NoLess
  <1>5. CASE h.direction # "Upload"
    <2>1. Charge(s, h) = [s EXCEPT !.down = @ + h.bytes]
      BY <1>5 DEF Charge
    <2>2. s.down + h.bytes \in 0..MaxU64
      BY <1>1, <1>2, <1>3, <2>1 DEF BandwidthStats
    <2> QED BY <1>1, <1>2, <1>3, <2>1, <2>2 DEF BandwidthStats, NoLess
  <1> QED BY <1>4, <1>5

(***************************************************************************)
(* Every step preserves the invariant and the recorded use: one step per   *)
(* method of the manager, and one per move of its environment.             *)
(***************************************************************************)
LEMMA StepOK ==
    ASSUME IInv, [Next]_vars
    PROVE  IInv' /\ Keeps(disk, disk')
  <1>0. /\ disk \in SUBSET BandwidthStats
        /\ holds \in [DOMAIN holds -> Hold]
        /\ DOMAIN holds \subseteq Ids
        /\ next_id \in Nat
    BY DEF IInv, TypeOK
  <1>a. \A prepared \in BOOLEAN :
          /\ ResultOK(Prepare(prepared))
          /\ Prepare(prepared).stats \in BandwidthStats
          /\ NoLess(Prepare(prepared).stats, Prepare(prepared).stats)
          /\ Keeps(disk, Prepare(prepared).disk)
          /\ Prepare(prepared).result = "Ok" => Prepare(prepared).lerror = "None"
          /\ Prepare(prepared).lerror = "Some" => DOMAIN holds = {}
          /\ Prepare(prepared).lerror \in {"None", "Some"}
    BY PrepareOK, NoLessReflexive
    DEF ResultOK, Result, IInv, UnreadAdmitsNothing, Error
  <1>1. ASSUME NEW direction \in Directions, NEW bytes \in Sizes,
               NEW prepared \in BOOLEAN, NEW saved \in BOOLEAN,
               Reserve(direction, bytes, prepared, saved)
        PROVE  IInv' /\ Keeps(disk, disk')
    <2> DEFINE p == Prepare(prepared)
               admitted == p.result = "Ok" /\ Admits(p, bytes)
               hold == [bytes |-> bytes, direction |-> direction]
    <2>1. /\ next_id + 1 \in Ids
          /\ clock' = clock /\ readable' = readable
          /\ next_id' \in Nat
      BY <1>0, <1>1 DEF Reserve
    <2>2. CASE admitted
      <3>1. Adopt(Persist(p, p.stats, saved))
        BY <1>1, <2>2 DEF Reserve
      <3>2. DOMAIN holds' \subseteq Ids /\ holds' \in [DOMAIN holds' -> Hold]
        <4>1. hold \in Hold
          BY BandwidthAssumption DEF BandwidthAssumption, Hold
        <4>2. CASE holds' = AddHold(next_id + 1, hold)
          BY <1>0, <2>1, <4>1, <4>2 DEF AddHold
        <4>3. CASE holds' = holds
          BY <1>0, <4>3
        <4> QED BY <1>1, <4>2, <4>3 DEF Reserve
      <3> HIDE DEF p
      <3>3. p.lerror = "None" BY <1>a, <2>2 DEF p
      <3> QED BY <1>a, <2>1, <3>1, <3>2, <3>3, PersistAfterPrepare, AdoptOK
          DEF p
    <2>3. CASE ~admitted
      <3>1. Adopt(p) /\ holds' = holds
        BY <1>1, <2>3 DEF Reserve
      <3> QED BY <1>0, <1>a, <2>1, <3>1, AdoptOK
    <2> QED BY <2>2, <2>3
  <1>2. ASSUME NEW id \in DOMAIN holds, NEW bytes \in Sizes,
               NEW prepared \in BOOLEAN, NEW saved \in BOOLEAN,
               Resize(id, bytes, prepared, saved)
        PROVE  IInv' /\ Keeps(disk, disk')
    <2> DEFINE p == Prepare(prepared)
               resized == p.result = "Ok" /\ Resizable(p, id, bytes)
    <2>1. clock' = clock /\ readable' = readable /\ next_id' = next_id
      BY <1>2 DEF Resize
    <2>2. DOMAIN holds' \subseteq Ids /\ holds' \in [DOMAIN holds' -> Hold]
      <3>1. bytes \in 0..MaxU64
        BY BandwidthAssumption DEF BandwidthAssumption
      <3>2. CASE holds' = [holds EXCEPT ![id].bytes = bytes]
        <4>1. holds[id] \in Hold BY <1>0
        <4>2. [holds[id] EXCEPT !.bytes = bytes] \in Hold
          BY <3>1, <4>1 DEF Hold
        <4> QED BY <1>0, <3>2, <4>2
      <3>3. CASE holds' = holds
        BY <1>0, <3>3
      <3> QED BY <1>2, <3>2, <3>3 DEF Resize
    <2>3. CASE resized
      <3>1. Adopt(Persist(p, p.stats, saved))
        BY <1>2, <2>3 DEF Resize
      <3> HIDE DEF p
      <3>2. p.lerror = "None" BY <1>a, <2>3 DEF p
      <3> QED BY <1>0, <1>a, <2>1, <2>2, <3>1, <3>2, PersistAfterPrepare, AdoptOK
          DEF p
    <2>4. CASE ~resized
      <3>1. Adopt(p) /\ holds' = holds
        BY <1>2, <2>4 DEF Resize
      <3> QED BY <1>0, <1>a, <2>1, <3>1, AdoptOK
    <2> QED BY <2>3, <2>4
  <1>3. ASSUME NEW id \in DOMAIN holds,
               NEW prepared \in BOOLEAN, NEW saved \in BOOLEAN,
               Commit(id, prepared, saved)
        PROVE  IInv' /\ Keeps(disk, disk')
    <2> DEFINE p == Prepare(prepared)
               charged == Charge(p.stats, holds[id])
               fits == charged.up <= MaxU64 /\ charged.down <= MaxU64
    <2>1. clock' = clock /\ readable' = readable /\ next_id' = next_id
      BY <1>3 DEF Commit
    <2>2. DOMAIN holds' \subseteq Ids /\ holds' \in [DOMAIN holds' -> Hold]
      BY <1>0, <1>3, RestrictOK DEF Commit
    <2>3. p.lerror = "None"
      BY <1>a
    <2>4. holds[id] \in Hold
      BY <1>0
    <2>5. CASE fits
      <3>1. Adopt(Persist(p, charged, saved))
        BY <1>3, <2>5 DEF Commit
      <3>2. charged \in BandwidthStats /\ NoLess(charged, p.stats)
        BY <1>a, <2>4, <2>5, ChargeNoLess
      <3> HIDE DEF p, charged
      <3> QED BY <1>0, <2>1, <2>2, <2>3, <3>1, <3>2, PersistAfterPrepare, AdoptOK
          DEF p
    <2>6. CASE ~fits
      <3>1. Adopt(p)
        BY <1>3, <2>6 DEF Commit
      <3> QED BY <1>0, <1>a, <2>1, <2>2, <2>3, <3>1, AdoptOK
    <2> QED BY <2>5, <2>6
  <1>4. ASSUME NEW bytes \in Limits, NEW prepared \in BOOLEAN,
               NEW saved \in BOOLEAN, SetLimit(bytes, prepared, saved)
        PROVE  IInv' /\ Keeps(disk, disk')
    <2> DEFINE p == Prepare(prepared)
               s == [p.stats EXCEPT !.limit = bytes]
               q == Persist(p, s, TRUE)
               r == [q EXCEPT !.limit = bytes]
    <2>1. /\ clock' = clock /\ readable' = readable /\ next_id' = next_id
          /\ holds' = holds
      BY <1>4 DEF SetLimit
    <2>2. CASE p.result = "Err"
      <3>1. Adopt(p) BY <1>4, <2>2 DEF SetLimit
      <3> QED BY <1>0, <1>a, <2>1, <3>1, AdoptOK
    <2>3. CASE p.result # "Err" /\ ~saved
      <3>1. Adopt([p EXCEPT !.perror = "Some"])
        BY <1>4, <2>3 DEF SetLimit
      <3> HIDE DEF p
      <3>2. ResultOK(p) /\ Keeps(disk, p.disk)
        BY <1>a DEF p
      <3>3. [p EXCEPT !.perror = "Some"] \in Result
        BY <3>2 DEF ResultOK, Result, Error
      <3>4. /\ ResultOK([p EXCEPT !.perror = "Some"])
            /\ [p EXCEPT !.perror = "Some"].disk = p.disk
            /\ [p EXCEPT !.perror = "Some"].lerror = p.lerror
        BY <3>2, <3>3 DEF ResultOK, Result
      <3>5. p.lerror = "Some" => DOMAIN holds' = {}
        BY <1>a, <2>1 DEF p
      <3> QED BY <1>0, <2>1, <3>1, <3>2, <3>4, <3>5, AdoptOK
    <2>4. CASE p.result # "Err" /\ saved
      <3>1. Adopt(r)
        BY <1>4, <2>4 DEF SetLimit
      <3>2. bytes \in 1..MaxU64
        BY BandwidthAssumption DEF BandwidthAssumption
      <3>3. p.lerror = "None"
        BY <1>a, <2>4 DEF ResultOK, Result
      <3>4. s \in BandwidthStats /\ NoLess(s, p.stats)
        <4>1. p.stats \in BandwidthStats /\ NoLess(p.stats, p.stats)
          BY <1>a
        <4> HIDE DEF p
        <4>2. s \in BandwidthStats
          BY <3>2, <4>1 DEF BandwidthStats
        <4>3. s.week = p.stats.week /\ s.up = p.stats.up /\ s.down = p.stats.down
          BY <4>1 DEF BandwidthStats
        <4> QED BY <4>1, <4>2, <4>3 DEF NoLess
      <3> HIDE DEF p, s
      <3>5. ResultOK(q) /\ Keeps(disk, q.disk) /\ q.lerror = "None"
        BY <3>3, <3>4, PersistAfterPrepare DEF p
      <3> HIDE DEF q
      <3>6. r \in Result
        BY <3>2, <3>5 DEF ResultOK, Result
      <3>7. ResultOK(r) /\ r.disk = q.disk /\ r.lerror = q.lerror
        BY <3>5, <3>6 DEF ResultOK, Result
      <3> HIDE DEF r
      <3> QED BY <1>0, <2>1, <3>1, <3>5, <3>7, AdoptOK
    <2> QED BY <2>2, <2>3, <2>4
  <1>5. ASSUME NEW prepared \in BOOLEAN, ReadStats(prepared)
        PROVE  IInv' /\ Keeps(disk, disk')
    BY <1>0, <1>5, <1>a, AdoptOK DEF ReadStats
  <1>6. ASSUME NEW id \in DOMAIN holds, Release(id)
        PROVE  IInv' /\ Keeps(disk, disk')
    <2>1. DOMAIN holds' \subseteq Ids /\ holds' \in [DOMAIN holds' -> Hold]
      BY <1>0, <1>6, RestrictOK DEF Release
    <2>2. TypeOK'
      BY <1>6, <2>1 DEF Release, IInv, TypeOK
    <2>3. /\ MemoryNotBehindDisk' /\ QuietMeansDurable' /\ UnreadAdmitsNothing'
          /\ disk' = disk
      BY <1>6 DEF Release, IInv, MemoryNotBehindDisk, QuietMeansDurable,
         UnreadAdmitsNothing, NoLess
    <2> QED BY <1>0, <2>2, <2>3, KeepsItself DEF IInv
  <1>7. CASE ClockMoves \/ ReadabilityChanges
    <2>1. /\ clock' \in Weeks
          /\ readable' \in BOOLEAN
          /\ UNCHANGED <<stats, limit, holds, next_id, persistence_error,
                         load_error, disk>>
      BY <1>7 DEF ClockMoves, ReadabilityChanges, IInv, TypeOK
    <2>2. TypeOK'
      BY <2>1 DEF IInv, TypeOK
    <2>3. /\ MemoryNotBehindDisk' /\ QuietMeansDurable' /\ UnreadAdmitsNothing'
          /\ disk' = disk
      BY <2>1 DEF IInv, MemoryNotBehindDisk, QuietMeansDurable,
         UnreadAdmitsNothing, NoLess
    <2> QED BY <1>0, <2>2, <2>3, KeepsItself DEF IInv
  <1>8. CASE At
    <2> DEFINE loaded == IF disk = {} \/ ~readable THEN DefaultStats(clock)
                         ELSE CHOOSE s \in disk : TRUE
    <2>1. loaded \in BandwidthStats
      <3>1. DefaultStats(clock) \in BandwidthStats
        BY BandwidthAssumption
        DEF BandwidthAssumption, IInv, TypeOK, DefaultStats, BandwidthStats
      <3> QED BY <1>0, <3>1
    <2>2. /\ stats' = loaded /\ limit' = loaded.limit
          /\ DOMAIN holds' = {} /\ holds' = [i \in {} |-> 0]
          /\ next_id' = 0 /\ persistence_error' = "None"
          /\ load_error' = IF disk # {} /\ ~readable THEN "Some" ELSE "None"
          /\ clock' = clock /\ disk' = disk /\ readable' = readable
      BY <1>8 DEF At
    <2>3. TypeOK'
      BY <2>1, <2>2 DEF IInv, TypeOK, Error, BandwidthStats
    <2>4. MemoryNotBehindDisk' /\ QuietMeansDurable'
      <3>1. CASE disk = {}
        <4>1. stats'.up = 0 /\ stats'.down = 0
          BY <2>2, <3>1 DEF DefaultStats
        <4> QED BY <2>2, <3>1, <4>1 DEF MemoryNotBehindDisk, QuietMeansDurable
      <3>2. CASE disk # {} /\ readable
        <4>1. PICK t \in BandwidthStats : disk = {t}
          BY <3>2 DEF IInv, TypeOK
        <4>2. stats' = t /\ disk' = {t}
          BY <2>2, <3>2, <4>1
        <4>3. NoLess(t, t)
          BY NoLessReflexive
        <4> QED BY <4>2, <4>3 DEF MemoryNotBehindDisk, QuietMeansDurable, NoLess
      <3>3. CASE disk # {} /\ ~readable
        BY <2>2, <3>3 DEF MemoryNotBehindDisk, QuietMeansDurable
      <3> QED BY <3>1, <3>2, <3>3
    <2>5. UnreadAdmitsNothing'
      BY <2>2 DEF UnreadAdmitsNothing
    <2> QED BY <1>0, <2>2, <2>3, <2>4, <2>5, KeepsItself DEF IInv
  <1>9. CASE UNCHANGED vars
    <2>1. TypeOK'
      BY <1>9 DEF vars, IInv, TypeOK
    <2>2. /\ MemoryNotBehindDisk' /\ QuietMeansDurable' /\ UnreadAdmitsNothing'
          /\ disk' = disk
      BY <1>9 DEF vars, IInv, MemoryNotBehindDisk, QuietMeansDurable,
         UnreadAdmitsNothing, NoLess
    <2> QED BY <1>0, <2>1, <2>2, KeepsItself DEF IInv
  <1> QED BY <1>1, <1>2, <1>3, <1>4, <1>5, <1>6, <1>7, <1>8, <1>9 DEF Next

(***************************************************************************)
(* Types are respected, a manager that read its file never holds less than *)
(* the file, a quiet manager's file holds everything, and a manager that   *)
(* could not read its file admits nothing: in every reachable state.       *)
(***************************************************************************)
THEOREM BandwidthInvariant ==
    Spec => []BandwidthInv
  <1>1. Init => IInv
    BY InitOK
  <1>2. IInv /\ [Next]_vars => IInv'
    BY StepOK
  <1>3. IInv => BandwidthInv
    BY DEF IInv, BandwidthInv
  <1> QED BY <1>1, <1>2, <1>3, PTL DEF Spec

(***************************************************************************)
(* Use recorded in bandwidth.json is never lost, whatever writes fail and  *)
(* however the clock, the file and the process behave.                     *)
(***************************************************************************)
THEOREM UseNeverLost == Spec => RecordedUseNeverLost
  <1>1. Init => IInv
    BY InitOK
  <1>2. IInv /\ [Next]_vars => IInv'
    BY StepOK
  <1>3. IInv /\ [Next]_vars =>
          [\A s \in disk : \E t \in disk' : NoLess(t, s)]_vars
    BY StepOK DEF Keeps
  <1> QED BY <1>1, <1>2, <1>3, PTL DEF Spec, RecordedUseNeverLost

-----------------------------------------------------------------------------
(***************************************************************************)
(* The sum of the holds.  The bytes held are the pairs of a hold and a     *)
(* number up to its size; the sum is their number, so that a hold that is  *)
(* taken out takes away the pairs of its own.                              *)
(***************************************************************************)
(* What a hold with n bytes adds to the bytes held. *)
LEMMA BytesOf ==
    ASSUME NEW id, NEW n \in Nat
    PROVE  IsFiniteSet({id} \X (1..n)) /\ Cardinality({id} \X (1..n)) = n
  <1>1. IsFiniteSet({id}) /\ Cardinality({id}) = 1
    BY FS_Singleton
  <1>2. IsFiniteSet(1..n) /\ Cardinality(1..n) = n
    BY FS_Interval
  <1>3. IsFiniteSet({id} \X (1..n)) /\ Cardinality({id} \X (1..n)) = Cardinality({id}) * Cardinality(1..n)
    BY <1>1, <1>2, FS_Product
  <1> QED BY <1>1, <1>2, <1>3

(* The holds are finitely many, so that their sum is a number. *)
LEMMA HeldFinite ==
    ASSUME NEW h, h \in [DOMAIN h -> Hold], DOMAIN h \subseteq Ids
    PROVE  IsFiniteSet(HeldBytes(h)) /\ Held(h) \in Nat
  <1>1. IsFiniteSet(Ids) /\ IsFiniteSet(1..MaxU64)
    <2>1. MaxIds \in Int /\ MaxU64 \in Int /\ 1 \in Int
      BY BandwidthAssumption DEF BandwidthAssumption
    <2>2. IsFiniteSet(1..MaxIds) /\ IsFiniteSet(1..MaxU64)
      BY <2>1, FS_Interval
    <2> QED BY <2>2 DEF Ids
  <1>2. IsFiniteSet(Ids \X (1..MaxU64))
    BY <1>1, FS_Product
  <1>3. HeldBytes(h) \subseteq Ids \X (1..MaxU64)
    <2> SUFFICES ASSUME NEW id \in DOMAIN h, NEW x \in {id} \X (1..h[id].bytes)
                 PROVE  x \in Ids \X (1..MaxU64)
      BY DEF HeldBytes
    <2>1. h[id].bytes \in 0..MaxU64 /\ MaxU64 \in Nat
      BY BandwidthAssumption DEF Hold, BandwidthAssumption
    <2>2. 1..h[id].bytes \subseteq 1..MaxU64
      BY <2>1
    <2> QED BY <2>2
  <1>4. IsFiniteSet(HeldBytes(h))
    BY <1>2, <1>3, FS_Subset
  <1> QED BY <1>4, FS_CardinalityType DEF Held

(* One hold taken out of the sum. *)
LEMMA HeldSplit ==
    ASSUME NEW h, h \in [DOMAIN h -> Hold], DOMAIN h \subseteq Ids, NEW id \in DOMAIN h
    PROVE  LET rest == Restrict(h, DOMAIN h \ {id}) IN
           /\ Held(h) = Held(rest) + h[id].bytes
           /\ Held(h) \in Nat /\ Held(rest) \in Nat /\ h[id].bytes \in Nat
  <1> DEFINE rest == Restrict(h, DOMAIN h \ {id})
             own == {id} \X (1..h[id].bytes)
  <1>1. h[id].bytes \in Nat
    BY BandwidthAssumption DEF Hold, BandwidthAssumption
  <1>2. IsFiniteSet(own) /\ Cardinality(own) = h[id].bytes
    BY <1>1, BytesOf
  <1>3. IsFiniteSet(HeldBytes(h)) /\ Held(h) \in Nat
    BY HeldFinite
  <1>4. IsFiniteSet(HeldBytes(rest)) /\ Held(rest) \in Nat
    <2>1. rest \in [DOMAIN rest -> Hold] /\ DOMAIN rest \subseteq Ids
      BY RestrictOK
    <2> QED BY <2>1, HeldFinite
  <1>5. HeldBytes(h) = HeldBytes(rest) \cup own
    <2>1. DOMAIN rest = DOMAIN h \ {id} /\ \A i \in DOMAIN rest : rest[i] = h[i]
      BY DEF Restrict
    <2>2. DOMAIN h = DOMAIN rest \cup {id}
      BY <2>1
    <2> HIDE DEF rest
    <2> QED BY <2>1, <2>2 DEF HeldBytes
  <1>6. HeldBytes(rest) \cap own = {}
    <2>1. DOMAIN rest = DOMAIN h \ {id}
      BY DEF Restrict
    <2> HIDE DEF rest
    <2> QED BY <2>1 DEF HeldBytes
  <1> HIDE DEF rest, own
  <1>7. Cardinality(HeldBytes(rest) \cup own) = Cardinality(HeldBytes(rest)) + Cardinality(own) - Cardinality(HeldBytes(rest) \cap own)
    BY <1>2, <1>4, FS_Union
  <1>8. Cardinality({}) = 0
    BY FS_EmptySet
  <1>9. Held(h) = Held(rest) + h[id].bytes
    <2>1. Cardinality(HeldBytes(h)) = Cardinality(HeldBytes(rest)) + h[id].bytes - 0
      BY <1>2, <1>5, <1>6, <1>7, <1>8
    <2> QED BY <1>1, <1>4, <2>1 DEF Held
  <1> QED BY <1>1, <1>3, <1>4, <1>9 DEF rest

(* No holds, no bytes. *)
LEMMA HeldNone ==
    ASSUME NEW h, DOMAIN h = {}
    PROVE  Held(h) = 0
  <1>1. HeldBytes(h) = {}
    BY DEF HeldBytes
  <1> QED BY <1>1, FS_EmptySet DEF Held

(***************************************************************************)
(* What makes ChargesFit inductive: the ids of the holds were handed out,  *)
(* so that a new hold replaces none.                                       *)
(***************************************************************************)
QuotaSound == IInv /\ ChargesFit /\ DOMAIN holds \subseteq 1..next_id

(* What prepare() leaves fits with the holds that are open. *)
LEMMA PrepareFits ==
    ASSUME QuotaSound, NEW prepared \in BOOLEAN
    PROVE  /\ Prepare(prepared).stats \in BandwidthStats
           /\ Used(Prepare(prepared).stats, holds) <= MaxU64
           /\ \A s \in Prepare(prepared).disk : s.up + s.down <= MaxU64
  <1> DEFINE reloads == load_error = "Some" /\ readable /\ disk # {}
             base == IF reloads THEN CHOOSE s \in disk : TRUE ELSE stats
             lim == IF reloads THEN base.limit ELSE limit
             rolled == Rolled(base, lim)
             loaded == [stats |-> base, limit |-> lim, disk |-> disk,
                        perror |-> persistence_error,
                        lerror |-> IF reloads THEN "None" ELSE load_error,
                        result |-> "Ok"]
             written == Persist(loaded, rolled, prepared)
  <1>1. IInv /\ holds \in [DOMAIN holds -> Hold] /\ DOMAIN holds \subseteq Ids
        /\ \A s \in disk : s \in BandwidthStats /\ s.up + s.down <= MaxU64
    BY DEF QuotaSound, IInv, TypeOK, ChargesFit
  <1>2. Held(holds) \in Nat /\ MaxU64 \in Nat
    BY <1>1, HeldFinite, BandwidthAssumption DEF BandwidthAssumption
  <1>3. base \in BandwidthStats /\ base.up + base.down + Held(holds) <= MaxU64
    <2>1. CASE reloads
      <3>1. base \in disk
        BY <2>1
      <3>2. Held(holds) = 0
        BY <1>1, <2>1, HeldNone DEF IInv, UnreadAdmitsNothing
      <3>3. base.up \in Nat /\ base.down \in Nat
        BY <1>1, <3>1, StatsFields
      <3> QED BY <1>1, <1>2, <3>1, <3>2, <3>3
    <2>2. CASE ~reloads
      BY <2>2 DEF QuotaSound, IInv, TypeOK, ChargesFit, Used
    <2> QED BY <2>1, <2>2
  <1> HIDE DEF base
  <1>4. base.up \in Nat /\ base.down \in Nat
    BY <1>3, StatsFields
  <1>5. rolled.up + rolled.down + Held(holds) <= MaxU64 /\ rolled.up + rolled.down <= MaxU64
    <2>1. rolled.up \in {0, base.up} /\ rolled.down \in {0, base.down}
      BY DEF Rolled
    <2> HIDE DEF rolled
    <2> QED BY <1>2, <1>3, <1>4, <2>1
  <1>6. loaded.stats = base /\ loaded.disk = disk
    OBVIOUS
  <1>7. written.stats = rolled /\ written.disk \in {disk, {rolled}}
    BY DEF Persist
  <1>8. Prepare(prepared) \in {[loaded EXCEPT !.result = "Err"], written, loaded}
    BY DEF Prepare, base
  <1>9. Prepare(prepared).stats \in {base, rolled} /\ Prepare(prepared).disk \in {disk, {rolled}}
    BY <1>6, <1>7, <1>8
  <1>10. Prepare(prepared).stats \in BandwidthStats
    BY <1>1, PrepareOK DEF ResultOK, Result
  <1> HIDE DEF rolled
  <1> QED BY <1>1, <1>3, <1>5, <1>9, <1>10 DEF Used

(* A method whose result fits with the holds it leaves. *)
LEMMA AdoptFits ==
    ASSUME NEW r, Adopt(r), Used(r.stats, holds') <= MaxU64,
           \A s \in r.disk : s.up + s.down <= MaxU64
    PROVE  ChargesFit'
  BY DEF Adopt, ChargesFit, Used

(* Writing a record that fits. *)
LEMMA PersistFits ==
    ASSUME NEW p, NEW s \in BandwidthStats, NEW saved \in BOOLEAN, NEW h,
           h \in [DOMAIN h -> Hold], DOMAIN h \subseteq Ids, p \in Result,
           Used(s, h) <= MaxU64, \A t \in p.disk : t.up + t.down <= MaxU64
    PROVE  /\ Used(Persist(p, s, saved).stats, h) <= MaxU64
           /\ \A t \in Persist(p, s, saved).disk : t.up + t.down <= MaxU64
  <1>1. Persist(p, s, saved).stats = s /\ Persist(p, s, saved).disk \in {{s}, p.disk}
    BY DEF Persist, Result
  <1>2. Held(h) \in Nat /\ s.up \in Nat /\ s.down \in Nat /\ MaxU64 \in Nat
    BY HeldFinite, StatsFields, BandwidthAssumption DEF BandwidthAssumption
  <1>3. s.up + s.down <= MaxU64
    BY <1>2 DEF Used
  <1> QED BY <1>1, <1>3

(* A new hold and a resized hold change the sum by what they hold. *)
LEMMA HeldWithNew ==
    ASSUME NEW id, NEW hold \in Hold, id \in Ids, id \notin DOMAIN holds,
           holds \in [DOMAIN holds -> Hold], DOMAIN holds \subseteq Ids
    PROVE  Held(AddHold(id, hold)) = Held(holds) + hold.bytes
  <1> DEFINE more == AddHold(id, hold)
  <1>1. /\ DOMAIN more = DOMAIN holds \cup {id} /\ more[id] = hold
        /\ \A i \in DOMAIN holds : more[i] = holds[i]
    BY DEF AddHold
  <1>2. more \in [DOMAIN more -> Hold] /\ DOMAIN more \subseteq Ids
    BY DEF AddHold
  <1>3. Restrict(more, DOMAIN more \ {id}) = holds
    BY DEF AddHold, Restrict
  <1> HIDE DEF more
  <1>4. Held(more) = Held(Restrict(more, DOMAIN more \ {id})) + more[id].bytes
    BY <1>1, <1>2, HeldSplit
  <1> QED BY <1>1, <1>3, <1>4 DEF more

LEMMA HeldResized ==
    ASSUME NEW id \in DOMAIN holds, NEW bytes \in 0..MaxU64,
           holds \in [DOMAIN holds -> Hold], DOMAIN holds \subseteq Ids
    PROVE  Held([holds EXCEPT ![id].bytes = bytes]) = Held(holds) - holds[id].bytes + bytes
  <1> DEFINE h == [holds EXCEPT ![id].bytes = bytes]
  <1>1. holds[id] \in Hold
    OBVIOUS
  <1>2. [holds[id] EXCEPT !.bytes = bytes] \in Hold
    BY <1>1 DEF Hold
  <1>3. /\ DOMAIN h = DOMAIN holds /\ h \in [DOMAIN h -> Hold]
        /\ h[id].bytes = bytes
    BY <1>1, <1>2 DEF Hold
  <1>4. Restrict(h, DOMAIN h \ {id}) = Restrict(holds, DOMAIN holds \ {id})
    BY DEF Restrict
  <1> HIDE DEF h
  <1>5. PICK rest \in Nat : /\ Held(h) = rest + bytes
                            /\ Held(holds) = rest + holds[id].bytes
                            /\ holds[id].bytes \in Nat
    BY <1>3, <1>4, HeldSplit
  <1>6. bytes \in Nat
    BY BandwidthAssumption DEF BandwidthAssumption
  <1> QED BY <1>5, <1>6 DEF h

(* What a method that leaves the holds alone after prepare() preserves. *)
LEMMA PreparedFits ==
    ASSUME QuotaSound, NEW prepared \in BOOLEAN, NEW r, Adopt(r),
           r.stats = Prepare(prepared).stats, r.disk = Prepare(prepared).disk,
           holds' = holds, next_id' = next_id
    PROVE  ChargesFit' /\ DOMAIN holds' \subseteq 1..next_id'
  <1>1. ChargesFit'
    BY PrepareFits, AdoptFits
  <1> QED BY <1>1 DEF QuotaSound

(***************************************************************************)
(* Every method keeps the sum within the counters: what it adds was        *)
(* admitted, and what it commits leaves the holds as it enters the stats.  *)
(***************************************************************************)
LEMMA StepFits ==
    ASSUME QuotaSound, [Next]_vars
    PROVE  QuotaSound'
  <1>0. /\ IInv /\ holds \in [DOMAIN holds -> Hold] /\ DOMAIN holds \subseteq Ids
        /\ DOMAIN holds \subseteq 1..next_id /\ next_id \in Nat
        /\ MaxU64 \in Nat /\ Sizes \subseteq 0..MaxU64
    BY BandwidthAssumption DEF QuotaSound, IInv, TypeOK, BandwidthAssumption
  <1>a. ASSUME NEW prepared \in BOOLEAN
        PROVE  /\ Prepare(prepared) \in Result /\ Prepare(prepared).stats \in BandwidthStats
               /\ Used(Prepare(prepared).stats, holds) <= MaxU64
               /\ \A s \in Prepare(prepared).disk : s.up + s.down <= MaxU64
    BY <1>0, PrepareOK, PrepareFits DEF ResultOK
  <1>b. Held(holds) \in Nat
    BY <1>0, HeldFinite
  <1>1. ASSUME NEW direction \in Directions, NEW bytes \in Sizes,
               NEW prepared \in BOOLEAN, NEW saved \in BOOLEAN,
               Reserve(direction, bytes, prepared, saved)
        PROVE  ChargesFit' /\ DOMAIN holds' \subseteq 1..next_id'
    <2> DEFINE p == Prepare(prepared)
               admitted == p.result = "Ok" /\ Admits(p, bytes)
               hold == [bytes |-> bytes, direction |-> direction]
    <2>1. CASE admitted
      <3>1. Adopt(Persist(p, p.stats, saved)) /\ next_id + 1 \in Ids
        BY <1>1, <2>1 DEF Reserve
      <3>2. /\ holds' = IF saved THEN AddHold(next_id + 1, hold) ELSE holds
            /\ next_id' = IF saved THEN next_id + 1 ELSE next_id
        BY <1>1, <2>1 DEF Reserve
      <3>3. Used(p.stats, holds) + bytes <= MaxU64 /\ bytes \in Nat
        BY <1>0, <2>1 DEF Admits
      <3> HIDE DEF p
      <3>4. p \in Result /\ p.stats \in BandwidthStats /\ Used(p.stats, holds) <= MaxU64
            /\ \A s \in p.disk : s.up + s.down <= MaxU64
        BY <1>a DEF p
      <3>5. /\ holds' \in [DOMAIN holds' -> Hold] /\ DOMAIN holds' \subseteq Ids
            /\ DOMAIN holds' \subseteq 1..next_id' /\ Used(p.stats, holds') <= MaxU64
        <4>1. CASE saved
          <5>1. hold \in Hold /\ hold.bytes = bytes /\ next_id + 1 \notin DOMAIN holds
            BY <1>0 DEF Hold
          <5>2. Held(holds') = Held(holds) + bytes
            BY <1>0, <3>1, <3>2, <4>1, <5>1, HeldWithNew
          <5>3. p.stats.up \in Nat /\ p.stats.down \in Nat
            BY <3>4, StatsFields
          <5>4. Used(p.stats, holds') <= MaxU64
            BY <1>b, <1>0, <3>3, <5>2, <5>3 DEF Used
          <5>5. /\ DOMAIN holds' = DOMAIN holds \cup {next_id + 1}
                /\ holds' \in [DOMAIN holds' -> Hold]
            BY <1>0, <3>2, <4>1, <5>1 DEF AddHold
          <5> QED BY <1>0, <3>1, <3>2, <4>1, <5>4, <5>5
        <4>2. CASE ~saved
          BY <1>0, <3>2, <3>4, <4>2
        <4> QED BY <4>1, <4>2
      <3> QED BY <3>1, <3>4, <3>5, PersistFits, AdoptFits
    <2>2. CASE ~admitted
      <3>1. Adopt(p) /\ holds' = holds /\ next_id' = next_id
        BY <1>1, <2>2 DEF Reserve
      <3> QED BY <3>1, PreparedFits
    <2> QED BY <2>1, <2>2
  <1>2. ASSUME NEW id \in DOMAIN holds, NEW bytes \in Sizes,
               NEW prepared \in BOOLEAN, NEW saved \in BOOLEAN,
               Resize(id, bytes, prepared, saved)
        PROVE  ChargesFit' /\ DOMAIN holds' \subseteq 1..next_id'
    <2> DEFINE p == Prepare(prepared)
               resized == p.result = "Ok" /\ Resizable(p, id, bytes)
    <2>1. CASE resized
      <3>1. /\ Adopt(Persist(p, p.stats, saved)) /\ next_id' = next_id
            /\ holds' = IF saved THEN [holds EXCEPT ![id].bytes = bytes] ELSE holds
        BY <1>2, <2>1 DEF Resize
      <3>2. Used(p.stats, holds) - holds[id].bytes + bytes <= MaxU64 /\ bytes \in 0..MaxU64
        BY <1>0, <2>1 DEF Resizable
      <3> HIDE DEF p
      <3>3. p \in Result /\ p.stats \in BandwidthStats /\ Used(p.stats, holds) <= MaxU64
            /\ \A s \in p.disk : s.up + s.down <= MaxU64
        BY <1>a DEF p
      <3>4. /\ holds' \in [DOMAIN holds' -> Hold] /\ DOMAIN holds' = DOMAIN holds
            /\ Used(p.stats, holds') <= MaxU64
        <4>1. CASE saved
          <5>1. Held(holds') = Held(holds) - holds[id].bytes + bytes
            BY <1>0, <3>1, <3>2, <4>1, HeldResized
          <5>2. /\ p.stats.up \in Nat /\ p.stats.down \in Nat /\ bytes \in Nat
                /\ holds[id] \in Hold /\ holds[id].bytes \in Nat
            BY <1>0, <3>2, <3>3, StatsFields DEF Hold
          <5>3. Used(p.stats, holds') <= MaxU64
            BY <1>b, <1>0, <3>2, <5>1, <5>2 DEF Used
          <5>4. [holds[id] EXCEPT !.bytes = bytes] \in Hold
            BY <3>2, <5>2 DEF Hold
          <5> QED BY <1>0, <3>1, <4>1, <5>3, <5>4
        <4>2. CASE ~saved
          BY <1>0, <3>1, <3>3, <4>2
        <4> QED BY <4>1, <4>2
      <3>5. ChargesFit'
        BY <1>0, <3>1, <3>3, <3>4, PersistFits, AdoptFits
      <3> QED BY <1>0, <3>1, <3>4, <3>5
    <2>2. CASE ~resized
      <3>1. Adopt(p) /\ holds' = holds /\ next_id' = next_id
        BY <1>2, <2>2 DEF Resize
      <3> QED BY <3>1, PreparedFits
    <2> QED BY <2>1, <2>2
  <1>c. ASSUME NEW id \in DOMAIN holds, holds' = Restrict(holds, DOMAIN holds \ {id})
        PROVE  /\ holds' \in [DOMAIN holds' -> Hold] /\ DOMAIN holds' \subseteq Ids
               /\ DOMAIN holds' \subseteq 1..next_id
               /\ Held(holds) = Held(holds') + holds[id].bytes /\ Held(holds') \in Nat
               /\ holds[id] \in Hold /\ holds[id].bytes \in Nat
    <2>1. holds' \in [DOMAIN holds' -> Hold] /\ DOMAIN holds' \subseteq Ids
      BY <1>0, <1>c, RestrictOK
    <2>2. DOMAIN holds' \subseteq DOMAIN holds
      BY <1>c DEF Restrict
    <2>3. Held(holds) = Held(holds') + holds[id].bytes /\ Held(holds') \in Nat /\ holds[id].bytes \in Nat
      BY <1>0, <1>c, HeldSplit
    <2> QED BY <1>0, <2>1, <2>2, <2>3
  <1>3. ASSUME NEW id \in DOMAIN holds,
               NEW prepared \in BOOLEAN, NEW saved \in BOOLEAN,
               Commit(id, prepared, saved)
        PROVE  ChargesFit' /\ DOMAIN holds' \subseteq 1..next_id'
    <2> DEFINE p == Prepare(prepared)
               charged == Charge(p.stats, holds[id])
               fits == charged.up <= MaxU64 /\ charged.down <= MaxU64
    <2>1. /\ Adopt(IF fits THEN Persist(p, charged, saved) ELSE p) /\ next_id' = next_id
          /\ holds' = Restrict(holds, DOMAIN holds \ {id})
      BY <1>3 DEF Commit
    <2>2. /\ holds' \in [DOMAIN holds' -> Hold] /\ DOMAIN holds' \subseteq Ids
          /\ DOMAIN holds' \subseteq 1..next_id
          /\ Held(holds) = Held(holds') + holds[id].bytes /\ Held(holds') \in Nat
          /\ holds[id] \in Hold /\ holds[id].bytes \in Nat
      BY <2>1, <1>c
    <2>3. p \in Result /\ p.stats \in BandwidthStats /\ Used(p.stats, holds) <= MaxU64
          /\ \A s \in p.disk : s.up + s.down <= MaxU64
      BY <1>a
    <2>4. fits => charged \in BandwidthStats
      BY <2>2, <2>3, ChargeNoLess
    <2> HIDE DEF p
    <2>5. p.stats.up \in Nat /\ p.stats.down \in Nat
      BY <2>3, StatsFields
    <2>6. charged.up + charged.down = p.stats.up + p.stats.down + holds[id].bytes
      BY <2>2, <2>3, <2>5 DEF Charge, BandwidthStats
    <2> HIDE DEF charged
    <2>7. Used(p.stats, holds') <= MaxU64
      BY <1>0, <2>2, <2>3, <2>5 DEF Used
    <2>8. Used(charged, holds') = Used(p.stats, holds)
      BY <2>2, <2>5, <2>6 DEF Used
    <2>9. CASE fits
      <3>1. Adopt(Persist(p, charged, saved)) /\ charged \in BandwidthStats /\ Used(charged, holds') <= MaxU64
        BY <2>1, <2>3, <2>4, <2>8, <2>9
      <3>2. ChargesFit'
        BY <2>2, <2>3, <3>1, PersistFits, AdoptFits
      <3> QED BY <2>1, <2>2, <3>2
    <2>10. CASE ~fits
      BY <2>1, <2>2, <2>3, <2>7, <2>10, AdoptFits
    <2> QED BY <2>9, <2>10
  <1>4. ASSUME NEW bytes \in Limits, NEW prepared \in BOOLEAN,
               NEW saved \in BOOLEAN, SetLimit(bytes, prepared, saved)
        PROVE  ChargesFit' /\ DOMAIN holds' \subseteq 1..next_id'
    <2> DEFINE p == Prepare(prepared)
               s == [p.stats EXCEPT !.limit = bytes]
               q == Persist(p, s, TRUE)
               r == [q EXCEPT !.limit = bytes]
    <2>1. holds' = holds /\ next_id' = next_id
      BY <1>4 DEF SetLimit
    <2>2. CASE p.result = "Err"
      <3>1. Adopt(p) BY <1>4, <2>2 DEF SetLimit
      <3> QED BY <2>1, <3>1, PreparedFits
    <2>3. CASE p.result # "Err" /\ ~saved
      <3>1. Adopt([p EXCEPT !.perror = "Some"])
        BY <1>4, <2>3 DEF SetLimit
      <3>2. p \in Result
        BY <1>a
      <3> HIDE DEF p
      <3>3. [p EXCEPT !.perror = "Some"].stats = p.stats /\ [p EXCEPT !.perror = "Some"].disk = p.disk
        BY <3>2 DEF Result
      <3> QED BY <2>1, <3>1, <3>3, PreparedFits DEF p
    <2>4. CASE p.result # "Err" /\ saved
      <3>1. Adopt(r)
        BY <1>4, <2>4 DEF SetLimit
      <3>2. p \in Result /\ p.stats \in BandwidthStats /\ Used(p.stats, holds) <= MaxU64
            /\ \A t \in p.disk : t.up + t.down <= MaxU64
        BY <1>a
      <3>3. bytes \in 1..MaxU64
        BY BandwidthAssumption DEF BandwidthAssumption
      <3> HIDE DEF p
      <3>4. s \in BandwidthStats /\ s.up = p.stats.up /\ s.down = p.stats.down
        BY <3>2, <3>3 DEF BandwidthStats
      <3> HIDE DEF s
      <3>5. Used(s, holds) <= MaxU64
        BY <3>2, <3>4 DEF Used
      <3>6. Used(q.stats, holds) <= MaxU64 /\ \A t \in q.disk : t.up + t.down <= MaxU64
        BY <1>0, <3>2, <3>4, <3>5, PersistFits
      <3>7. r.stats = q.stats /\ r.disk = q.disk
        BY <3>2 DEF Persist, Result
      <3> HIDE DEF q, r
      <3>8. ChargesFit'
        BY <2>1, <3>1, <3>6, <3>7, AdoptFits
      <3> QED BY <1>0, <2>1, <3>8
    <2> QED BY <2>2, <2>3, <2>4
  <1>5. ASSUME NEW prepared \in BOOLEAN, ReadStats(prepared)
        PROVE  ChargesFit' /\ DOMAIN holds' \subseteq 1..next_id'
    BY <1>5, PreparedFits DEF ReadStats
  <1>6. ASSUME NEW id \in DOMAIN holds, Release(id)
        PROVE  ChargesFit' /\ DOMAIN holds' \subseteq 1..next_id'
    <2>1. /\ DOMAIN holds' \subseteq 1..next_id /\ Held(holds) = Held(holds') + holds[id].bytes
          /\ Held(holds') \in Nat /\ holds[id].bytes \in Nat
      BY <1>6, <1>c DEF Release
    <2>2. next_id' = next_id /\ stats' = stats /\ disk' = disk
      BY <1>6 DEF Release
    <2>3. stats.up \in Nat /\ stats.down \in Nat
      BY <1>0, StatsFields DEF IInv, TypeOK
    <2>4. Used(stats, holds) <= MaxU64 /\ \A s \in disk : s.up + s.down <= MaxU64
      BY DEF QuotaSound, ChargesFit
    <2>5. Used(stats', holds') <= MaxU64
      BY <1>0, <2>1, <2>2, <2>3, <2>4 DEF Used
    <2> QED BY <2>1, <2>2, <2>4, <2>5 DEF ChargesFit
  <1>7. ASSUME ClockMoves \/ ReadabilityChanges \/ UNCHANGED vars
        PROVE  ChargesFit' /\ DOMAIN holds' \subseteq 1..next_id'
    <2>1. UNCHANGED <<stats, holds, next_id, disk>>
      BY <1>7 DEF ClockMoves, ReadabilityChanges, vars
    <2>2. Used(stats', holds') <= MaxU64 /\ \A s \in disk' : s.up + s.down <= MaxU64
      BY <2>1 DEF QuotaSound, ChargesFit
    <2> QED BY <1>0, <2>1, <2>2 DEF ChargesFit
  <1>8. ASSUME At
        PROVE  ChargesFit' /\ DOMAIN holds' \subseteq 1..next_id'
    <2>1. /\ DOMAIN holds' = {} /\ disk' = disk
          /\ stats' = IF disk = {} \/ ~readable THEN DefaultStats(clock) ELSE CHOOSE s \in disk : TRUE
      BY <1>8 DEF At
    <2>2. Held(holds') = 0
      BY <2>1, HeldNone
    <2>3. \A s \in disk : s \in BandwidthStats /\ s.up + s.down <= MaxU64
      BY <1>0 DEF QuotaSound, ChargesFit, IInv, TypeOK
    <2>4. stats'.up + stats'.down <= MaxU64 /\ stats'.up \in Nat /\ stats'.down \in Nat
      <3>1. CASE disk = {} \/ ~readable
        BY <1>0, <2>1, <3>1 DEF DefaultStats
      <3>2. CASE ~(disk = {} \/ ~readable)
        <4>1. stats' \in disk
          BY <2>1, <3>2
        <4> QED BY <2>3, <4>1, StatsFields
      <3> QED BY <3>1, <3>2
    <2>5. Used(stats', holds') <= MaxU64
      BY <1>0, <2>2, <2>4 DEF Used
    <2>6. \A s \in disk' : s.up + s.down <= MaxU64
      BY <2>1, <2>3
    <2>7. DOMAIN holds' \subseteq 1..next_id'
      BY <2>1
    <2> QED BY <2>5, <2>6, <2>7 DEF ChargesFit
  <1>9. ChargesFit' /\ DOMAIN holds' \subseteq 1..next_id'
    BY <1>1, <1>2, <1>3, <1>4, <1>5, <1>6, <1>7, <1>8 DEF Next
  <1>10. IInv'
    BY <1>0, StepOK
  <1> QED BY <1>9, <1>10 DEF QuotaSound

(***************************************************************************)
(* Committed and held bytes together fit the counters in every reachable   *)
(* state, for every limit, size, bound and failure: so no commit overflows *)
(* after its hold is gone, and no file is written that load() refuses.     *)
(***************************************************************************)
THEOREM ChargesAlwaysFit ==
    Spec => []ChargesFit
  <1>1. Init => QuotaSound
    <2> SUFFICES ASSUME Init PROVE QuotaSound
      OBVIOUS
    <2>1. DOMAIN holds = {} /\ disk = {} /\ stats.up = 0 /\ stats.down = 0 /\ MaxU64 \in Nat
      BY BandwidthAssumption DEF Init, DefaultStats, BandwidthAssumption
    <2>2. Held(holds) = 0
      BY <2>1, HeldNone
    <2> QED BY <2>1, <2>2, InitOK DEF QuotaSound, ChargesFit, Used
  <1>2. QuotaSound /\ [Next]_vars => QuotaSound'
    BY StepFits
  <1>3. QuotaSound => ChargesFit
    BY DEF QuotaSound
  <1> QED BY <1>1, <1>2, <1>3, PTL DEF Spec

-----------------------------------------------------------------------------
(***************************************************************************)
(* The pacer.  Ids grow, so that a transfer that joins behind another one  *)
(* is never the head of the queue at once; the head joined before the      *)
(* cursor was set.                                                         *)
(***************************************************************************)
PlacesDrawn == \A i \in 1..Len(lane.queue) : lane.queue[i] <= lane.next

HeadWaited ==
  \A t \in PacedTransfers :
    lane.queue # <<>> /\ waits[t].policy = lane.policy /\ waits[t].id = lane.queue[1] => cursorAge <= joinedAge[t]

LaneRecord == [policy : Policies, queue : Seq(1..MaxTicket), next : 0..MaxTicket]
WaitRecord == [on : BOOLEAN, id : 0..MaxTicket, policy : Policies]

PaceSound ==
  /\ PacerTypeOK /\ lane \in LaneRecord /\ joinedAge \in [PacedTransfers -> 0..Longest]
  /\ PlacesDrawn /\ cursorAge <= grantedAge /\ HeadWaited

LEMMA LongestIs == Longest \in Nat /\ \A p \in DOMAIN Slow : Slow[p] <= Longest /\ Slow[p] \in Nat \ {0}
  <1>1. PICK p \in DOMAIN Slow : \A q \in DOMAIN Slow : Slow[q] <= Slow[p]
    BY PacerAssumption DEF PacerAssumption
  <1>2. Slow[p] \in {Slow[q] : q \in DOMAIN Slow} /\ \A q \in DOMAIN Slow : Slow[q] <= Slow[p]
    BY <1>1
  <1>3. Longest \in {Slow[q] : q \in DOMAIN Slow} /\ \A q \in DOMAIN Slow : Slow[q] <= Longest
    BY <1>2 DEF Longest
  <1> QED BY <1>3, PacerAssumption DEF PacerAssumption

LEMMA OlderKeepsOrder ==
  ASSUME NEW a \in 0..Longest, NEW b \in 0..Longest, a <= b
  PROVE  Older(a) \in 0..Longest /\ Older(a) <= Older(b)
  BY LongestIs DEF Older

(* What a poll and a departure leave of the queue. *)
LEMMA SeenSound ==
  ASSUME PaceSound
  PROVE  /\ Seen \in LaneRecord /\ Len(Seen.queue) <= MaxQueued /\ IsInjective(Seen.queue)
         /\ \A i \in 1..Len(Seen.queue) : Seen.queue[i] <= Seen.next
         /\ Seen.policy = policy /\ SeenAge \in 0..Longest /\ SeenAge <= grantedAge
         /\ Seen.queue = <<>> \/ (Seen = lane /\ SeenAge = cursorAge)
  <1>1. CASE lane.policy = policy
    BY <1>1 DEF Seen, SeenAge, PaceSound, PacerTypeOK, PlacesDrawn
  <1>2. CASE lane.policy # policy
    <2>1. Seen = [lane EXCEPT !.policy = policy, !.queue = <<>>] /\ SeenAge = 0
      BY <1>2 DEF Seen, SeenAge
    <2>2. Seen \in LaneRecord /\ Seen.queue = <<>> /\ Seen.policy = policy
      <3>1. PICK q : q = <<>>
        OBVIOUS
      <3>2. q \in Seq(1..MaxTicket)
        BY <3>1
      <3>3. Seen = [lane EXCEPT !.policy = policy, !.queue = q] /\ policy \in Policies /\ lane \in LaneRecord
        BY <2>1, <3>1 DEF PaceSound, PacerTypeOK
      <3>4. Seen \in LaneRecord /\ Seen.queue = q /\ Seen.policy = policy
        BY <3>2, <3>3 DEF LaneRecord
      <3> QED BY <3>1, <3>4
    <2>3. IsInjective(<<>>) /\ Len(<<>>) = 0
      BY DEF IsInjective
    <2>4. MaxQueued \in Nat /\ grantedAge \in 0..Longest
      BY PacerAssumption DEF PacerAssumption, PaceSound, PacerTypeOK
    <2> QED BY <2>1, <2>2, <2>3, <2>4, LongestIs
  <1> QED BY <1>1, <1>2

LEMMA RemoveAtIs ==
  ASSUME NEW S, NEW q \in Seq(S), NEW i \in 1..Len(q)
  PROVE  /\ RemoveAt(q, i) \in Seq(S) /\ Len(RemoveAt(q, i)) = Len(q) - 1
         /\ \A j \in 1..Len(q) - 1 : RemoveAt(q, i)[j] = IF j < i THEN q[j] ELSE q[j + 1]
  <1>1. PICK a, b : a = SubSeq(q, 1, i - 1) /\ b = SubSeq(q, i + 1, Len(q))
    OBVIOUS
  <1>2. a \in Seq(S) /\ Len(a) = i - 1 /\ \A j \in 1..i - 1 : a[j] = q[j]
    BY <1>1
  <1>3. b \in Seq(S) /\ Len(b) = Len(q) - i /\ \A j \in 1..Len(q) - i : b[j] = q[i + j]
    BY <1>1
  <1>4. RemoveAt(q, i) = a \o b
    BY <1>1 DEF RemoveAt
  <1>a. Len(q) \in Nat /\ Len(a) \in Nat /\ Len(b) \in Nat
    BY <1>2, <1>3
  <1>b. Len(a \o b) = Len(a) + Len(b)
    BY <1>2, <1>3, ConcatProperties
  <1>c. a \o b \in Seq(S)
    BY <1>2, <1>3, ConcatProperties
  <1>5. a \o b \in Seq(S) /\ Len(a \o b) = Len(q) - 1
    BY <1>2, <1>3, <1>a, <1>b, <1>c
  <1>6. ASSUME NEW j \in 1..Len(q) - 1 PROVE (a \o b)[j] = IF j < i THEN q[j] ELSE q[j + 1]
    <2>1. CASE j < i
      BY <1>2, <1>3, <2>1
    <2>2. CASE ~(j < i)
      <3>0. i \in Int /\ j \in Int /\ j >= i
        BY <1>a, <2>2
      <3>1. (a \o b)[j] = b[j - (i - 1)] /\ j - (i - 1) \in 1..Len(q) - i
        BY <1>2, <1>3, <3>0
      <3> QED BY <1>3, <2>2, <3>0, <3>1
    <2> QED BY <2>1, <2>2
  <1> QED BY <1>4, <1>5, <1>6

(* What a step has to keep. *)
LEMMA PaceKeeps ==
  ASSUME PaceSound, lane' \in LaneRecord, Len(lane'.queue) <= MaxQueued, IsInjective(lane'.queue),
         \A i \in 1..Len(lane'.queue) : lane'.queue[i] <= lane'.next,
         policy' \in Policies, switches' \in 0..MaxSwitches,
         cursorAge' \in 0..Longest, grantedAge' \in 0..Longest, cursorAge' <= grantedAge',
         waits' \in [PacedTransfers -> WaitRecord], joinedAge' \in [PacedTransfers -> 0..Longest],
         cursorAge' = 0 \/ HeadWaited'
  PROVE  PaceSound'
  <1>1. PacerTypeOK'
    BY DEF PacerTypeOK, LaneRecord, WaitRecord
  <1>2. HeadWaited'
    BY LongestIs DEF HeadWaited
  <1> QED BY <1>1, <1>2 DEF PaceSound, PlacesDrawn

LEMMA NoTicketIs ==
  /\ NoTicket \in WaitRecord /\ [NoTicket EXCEPT !.on = TRUE] \in WaitRecord
  /\ NoTicket.id = 0 /\ [NoTicket EXCEPT !.on = TRUE].id = 0
  <1>1. 0 \in 0..MaxTicket /\ "free" \in Policies
    BY PacerAssumption DEF Policies, PacerAssumption
  <1>2. NoTicket \in WaitRecord /\ NoTicket.id = 0
    BY <1>1 DEF NoTicket, WaitRecord
  <1>3. PICK k : k = [NoTicket EXCEPT !.on = TRUE]
    OBVIOUS
  <1>4. k \in WaitRecord /\ k.id = 0
    BY <1>2, <1>3 DEF WaitRecord
  <1> QED BY <1>2, <1>3, <1>4

(* One transfer moves without a place in the queue; the lane is as the     *)
(* poll found it, or as it was.                                            *)
LEMMA OneWaits ==
  ASSUME PaceSound, NEW t \in PacedTransfers, NEW k \in {NoTicket, [NoTicket EXCEPT !.on = TRUE]},
         waits' = [waits EXCEPT ![t] = k],
         (lane' = Seen /\ cursorAge' = SeenAge) \/ UNCHANGED <<lane, cursorAge>>,
         UNCHANGED <<policy, switches, joinedAge, grantedAge>>
  PROVE  PaceSound'
  <1>1. k \in WaitRecord /\ k.id = 0
    BY NoTicketIs
  <1>2. /\ waits' \in [PacedTransfers -> WaitRecord] /\ waits'[t].id = 0
        /\ \A o \in PacedTransfers \ {t} : waits'[o] = waits[o]
    BY <1>1 DEF PaceSound, PacerTypeOK, WaitRecord
  <1>3. /\ lane' \in LaneRecord /\ Len(lane'.queue) <= MaxQueued /\ IsInjective(lane'.queue)
        /\ \A i \in 1..Len(lane'.queue) : lane'.queue[i] <= lane'.next
        /\ cursorAge' \in 0..Longest /\ cursorAge' <= grantedAge'
        /\ lane'.queue = <<>> \/ (lane' = lane /\ cursorAge' = cursorAge)
    BY SeenSound DEF PaceSound, PacerTypeOK, PlacesDrawn
  <1>4. HeadWaited'
    <2> SUFFICES ASSUME NEW o \in PacedTransfers, lane'.queue # <<>>, waits'[o].policy = lane'.policy,
                        waits'[o].id = lane'.queue[1]
                 PROVE  cursorAge' <= joinedAge'[o]
      BY DEF HeadWaited
    <2>1. lane' = lane /\ cursorAge' = cursorAge
      BY <1>3
    <2>2. lane.queue[1] \in 1..MaxTicket
      <3>1. PICK q : q = lane.queue
        OBVIOUS
      <3>2. q \in Seq(1..MaxTicket) /\ q # <<>>
        BY <2>1, <3>1 DEF PaceSound, LaneRecord
      <3>3. q[1] \in 1..MaxTicket
        <4>1. Len(q) \in Nat \ {0}
          BY <3>2, EmptySeq
        <4>2. 1 \in 1..Len(q)
          BY <4>1
        <4> QED BY <3>2, <4>2, ElementOfSeq
      <3> QED BY <3>1, <3>3
    <2> QED BY <1>2, <2>1, <2>2 DEF PaceSound, HeadWaited
  <1> QED BY <1>2, <1>3, <1>4, PaceKeeps DEF PaceSound, PacerTypeOK

LEMMA JoinKeeps ==
  ASSUME PaceSound, NEW t \in PacedTransfers, PollJoin(t)
  PROVE  PaceSound'
  <1>1. PICK q, n : q = Seen.queue /\ n = Seen.next
    OBVIOUS
  <1>2. /\ Seen \in LaneRecord /\ q \in Seq(1..MaxTicket) /\ n \in 0..MaxTicket /\ IsInjective(q)
        /\ \A i \in 1..Len(q) : q[i] <= n
        /\ Seen.policy = policy /\ SeenAge \in 0..Longest /\ SeenAge <= grantedAge
        /\ q = <<>> \/ (Seen = lane /\ SeenAge = cursorAge)
    BY <1>1, SeenSound DEF LaneRecord
  <1>3. /\ Len(q) < MaxQueued /\ n < MaxTicket
        /\ lane' = [Seen EXCEPT !.next = n + 1, !.queue = Append(q, n + 1)]
        /\ cursorAge' = IF q = <<>> THEN 0 ELSE SeenAge
        /\ waits' = [waits EXCEPT ![t] = [on |-> TRUE, id |-> n + 1, policy |-> policy]]
        /\ joinedAge' = [joinedAge EXCEPT ![t] = 0]
        /\ UNCHANGED <<policy, switches, grantedAge>>
    BY <1>1, <1>2 DEF PollJoin, AgeOnJoin, LaneRecord
  <1>4. MaxQueued \in Nat /\ MaxTicket \in Nat
    BY PacerAssumption DEF PacerAssumption
  <1>5. /\ Append(q, n + 1) \in Seq(1..MaxTicket) /\ Len(Append(q, n + 1)) = Len(q) + 1
        /\ \A i \in 1..Len(q) : Append(q, n + 1)[i] = q[i]
        /\ Append(q, n + 1)[Len(q) + 1] = n + 1
    BY <1>2, <1>3, <1>4
  <1>6. IsInjective(Append(q, n + 1))
    <2>1. \A i \in 1..Len(q) : q[i] # n + 1
      BY <1>2
    <2>2. ASSUME NEW i \in 1..Len(q) + 1, NEW j \in 1..Len(q) + 1, Append(q, n + 1)[i] = Append(q, n + 1)[j]
          PROVE  i = j
      BY <1>2, <1>5, <2>1, <2>2 DEF IsInjective
    <2> QED BY <1>2, <1>5, <2>2 DEF IsInjective
  <1>7. lane' \in LaneRecord /\ lane'.queue = Append(q, n + 1) /\ lane'.next = n + 1 /\ lane'.policy = policy
    <2>1. PICK r : r = Append(q, n + 1)
      OBVIOUS
    <2>2. n + 1 \in 0..MaxTicket /\ r \in Seq(1..MaxTicket)
      BY <1>2, <1>3, <1>4, <1>5, <2>1
    <2>3. lane' = [Seen EXCEPT !.next = n + 1, !.queue = r] /\ Seen \in LaneRecord
      BY <1>2, <1>3, <2>1
    <2>4. lane' \in LaneRecord /\ lane'.queue = r /\ lane'.next = n + 1 /\ lane'.policy = Seen.policy
      BY <2>2, <2>3 DEF LaneRecord
    <2> QED BY <1>2, <2>1, <2>4
  <1>8. PICK k : k = [on |-> TRUE, id |-> n + 1, policy |-> policy]
    OBVIOUS
  <1>9. k \in WaitRecord /\ k.id = n + 1
    BY <1>2, <1>3, <1>4, <1>8 DEF WaitRecord, PaceSound, PacerTypeOK
  <1>10. /\ waits' \in [PacedTransfers -> WaitRecord] /\ waits'[t].id = n + 1
         /\ \A o \in PacedTransfers \ {t} : waits'[o] = waits[o]
    BY <1>3, <1>8, <1>9 DEF PaceSound, PacerTypeOK, WaitRecord
  <1>11. /\ joinedAge' \in [PacedTransfers -> 0..Longest]
         /\ \A o \in PacedTransfers \ {t} : joinedAge'[o] = joinedAge[o]
    BY <1>3, LongestIs DEF PaceSound
  <1>12. cursorAge' = 0 \/ HeadWaited'
    <2> SUFFICES ASSUME q # <<>>, NEW o \in PacedTransfers, waits'[o].policy = lane'.policy,
                        waits'[o].id = lane'.queue[1]
                 PROVE  cursorAge' <= joinedAge'[o]
      BY <1>3 DEF HeadWaited
    <2>1. Seen = lane /\ cursorAge' = cursorAge /\ lane.queue = q
      BY <1>1, <1>2, <1>3
    <2>a. Len(q) \in Nat /\ Len(q) >= 1
      BY <1>2
    <2>b. 1 \in 1..Len(q)
      BY <2>a
    <2>2. lane'.queue[1] = q[1] /\ q[1] <= n /\ q[1] \in 1..MaxTicket
      BY <1>2, <1>5, <1>7, <2>b, ElementOfSeq
    <2>3. o # t
      BY <1>2, <1>10, <2>2
    <2>4. lane'.policy = lane.policy
      BY <1>2, <1>7, <2>1
    <2> QED BY <1>10, <1>11, <2>1, <2>2, <2>3, <2>4 DEF PaceSound, HeadWaited
  <1>13. \A i \in 1..Len(lane'.queue) : lane'.queue[i] <= lane'.next
    <2> SUFFICES ASSUME NEW i \in 1..Len(q) + 1 PROVE Append(q, n + 1)[i] <= n + 1
      BY <1>5, <1>7
    <2>1. CASE i \in 1..Len(q)
      <3>1. q[i] \in 1..MaxTicket /\ q[i] <= n /\ Append(q, n + 1)[i] = q[i]
        BY <1>2, <1>5, <2>1, ElementOfSeq
      <3> QED BY <1>2, <3>1
    <2>2. CASE i = Len(q) + 1
      BY <1>2, <1>5, <2>2
    <2>3. Len(q) \in Nat
      BY <1>2
    <2> QED BY <2>1, <2>2, <2>3
  <1>14. cursorAge' \in 0..Longest /\ grantedAge' \in 0..Longest /\ cursorAge' <= grantedAge'
    BY <1>2, <1>3, LongestIs DEF PaceSound, PacerTypeOK
  <1>15. Len(lane'.queue) <= MaxQueued /\ policy' \in Policies /\ switches' \in 0..MaxSwitches
    BY <1>2, <1>3, <1>4, <1>5, <1>7 DEF PaceSound, PacerTypeOK
  <1> QED BY <1>6, <1>7, <1>10, <1>11, <1>12, <1>13, <1>14, <1>15, PaceKeeps

LEMMA GrantKeeps ==
  ASSUME PaceSound, NEW t \in PacedTransfers, PollGranted(t)
  PROVE  PaceSound'
  <1>1. PICK q : q = Seen.queue
    OBVIOUS
  <1>2. /\ Seen \in LaneRecord /\ q \in Seq(1..MaxTicket) /\ IsInjective(q) /\ Len(q) <= MaxQueued
        /\ \A i \in 1..Len(q) : q[i] <= Seen.next
    BY <1>1, SeenSound DEF LaneRecord
  <1>3. q # <<>>
    BY <1>1, <1>2 DEF PollGranted, HoldsPlace, Range
  <1>4. /\ lane' = [Seen EXCEPT !.queue = Tail(q)] /\ cursorAge' = 0 /\ grantedAge' = 0
        /\ waits' = [waits EXCEPT ![t] = NoTicket] /\ UNCHANGED <<policy, switches, joinedAge>>
    BY <1>1, <1>2 DEF PollGranted, LaneRecord
  <1>5. /\ Tail(q) \in Seq(1..MaxTicket) /\ Len(Tail(q)) = Len(q) - 1
        /\ \A i \in 1..Len(q) - 1 : Tail(q)[i] = q[i + 1]
    BY <1>2, <1>3
  <1>6. IsInjective(Tail(q))
    BY <1>2, <1>5 DEF IsInjective
  <1>7. lane' \in LaneRecord /\ lane'.queue = Tail(q) /\ lane'.next = Seen.next
    BY <1>2, <1>4, <1>5 DEF LaneRecord
  <1>8. \A i \in 1..Len(lane'.queue) : lane'.queue[i] <= lane'.next
    BY <1>2, <1>5, <1>7
  <1>9. waits' \in [PacedTransfers -> WaitRecord]
    BY <1>4, NoTicketIs DEF PaceSound, PacerTypeOK, WaitRecord
  <1>10. Len(lane'.queue) <= MaxQueued
    BY <1>2, <1>5, <1>7, PacerAssumption DEF PacerAssumption
  <1>11. cursorAge' \in 0..Longest /\ grantedAge' \in 0..Longest /\ cursorAge' <= grantedAge'
    BY <1>4, LongestIs
  <1>12. joinedAge' \in [PacedTransfers -> 0..Longest] /\ policy' \in Policies /\ switches' \in 0..MaxSwitches
    BY <1>4 DEF PaceSound, PacerTypeOK
  <1> QED BY <1>4, <1>6, <1>7, <1>8, <1>9, <1>10, <1>11, <1>12, PaceKeeps

LEMMA AbandonKeeps ==
  ASSUME PaceSound, NEW t \in PacedTransfers, Abandon(t)
  PROVE  PaceSound'
  <1>0. waits' = [waits EXCEPT ![t] = NoTicket] /\ UNCHANGED <<policy, switches, joinedAge, grantedAge>>
    BY DEF Abandon
  <1>1. CASE UNCHANGED <<lane, cursorAge>>
    BY <1>0, <1>1, OneWaits
  <1>2. CASE OwnsPlace(t) /\ lane' = [lane EXCEPT !.queue = RemoveAt(lane.queue, Position(t))] /\ cursorAge' = AgeOnLeave(t)
    <2>1. PICK q, i : q = lane.queue /\ i = Position(t)
      OBVIOUS
    <2>2. q \in Seq(1..MaxTicket) /\ IsInjective(q) /\ Len(q) <= MaxQueued /\ \A j \in 1..Len(q) : q[j] <= lane.next
      BY <2>1 DEF PaceSound, PacerTypeOK, PlacesDrawn
    <2>3. i \in 1..Len(q) /\ q[i] = waits[t].id
      <3>1. \E j \in DOMAIN lane.queue : lane.queue[j] = waits[t].id
        BY <1>2 DEF OwnsPlace, Range
      <3>2. Position(t) \in DOMAIN lane.queue /\ lane.queue[Position(t)] = waits[t].id
        BY <3>1 DEF Position
      <3> QED BY <2>1, <2>2, <3>2
    <2>4. PICK r : r = RemoveAt(q, i)
      OBVIOUS
    <2>5. /\ r \in Seq(1..MaxTicket) /\ Len(r) = Len(q) - 1
          /\ \A j \in 1..Len(q) - 1 : r[j] = IF j < i THEN q[j] ELSE q[j + 1]
      BY <2>2, <2>3, <2>4, RemoveAtIs
    <2>6. IsInjective(r)
      <3>1. \A j, k \in 1..Len(q) : q[j] = q[k] => j = k
        BY <2>2 DEF IsInjective
      <3>2. ASSUME NEW j \in 1..Len(q) - 1, NEW k \in 1..Len(q) - 1, r[j] = r[k]
            PROVE  j = k
        <4>1. PICK a \in 1..Len(q) : a = (IF j < i THEN j ELSE j + 1) /\ r[j] = q[a]
          BY <2>2, <2>3, <2>5
        <4>2. PICK b \in 1..Len(q) : b = (IF k < i THEN k ELSE k + 1) /\ r[k] = q[b]
          BY <2>2, <2>3, <2>5
        <4>3. a = b
          BY <3>1, <3>2, <4>1, <4>2
        <4> QED BY <2>2, <2>3, <4>1, <4>2, <4>3
      <3> QED BY <2>2, <2>5, <3>2 DEF IsInjective
    <2>7. lane' = [lane EXCEPT !.queue = r]
      BY <1>2, <2>1, <2>4
    <2>8. lane' \in LaneRecord /\ lane'.queue = r /\ lane'.next = lane.next /\ lane'.policy = lane.policy
      BY <2>5, <2>7 DEF PaceSound, LaneRecord
    <2>9. \A j \in 1..Len(lane'.queue) : lane'.queue[j] <= lane'.next
      BY <2>2, <2>3, <2>5, <2>8
    <2>10. /\ waits' \in [PacedTransfers -> WaitRecord] /\ waits'[t].id = 0
           /\ \A o \in PacedTransfers \ {t} : waits'[o] = waits[o]
      BY <1>0, NoTicketIs DEF PaceSound, PacerTypeOK, WaitRecord
    <2>11. cursorAge' = IF i = 1 THEN 0 ELSE cursorAge
      BY <1>2, <2>1 DEF AgeOnLeave
    <2>12. cursorAge' = 0 \/ HeadWaited'
      <3> SUFFICES ASSUME i # 1, NEW o \in PacedTransfers, lane'.queue # <<>>, waits'[o].policy = lane'.policy,
                          waits'[o].id = lane'.queue[1]
                   PROVE  cursorAge' <= joinedAge'[o]
        BY <2>11 DEF HeadWaited
      <3>a. Len(q) \in Nat /\ Len(r) >= 1 /\ i \in 2..Len(q)
        BY <2>2, <2>3, <2>5, <2>8
      <3>b. 1 \in 1..Len(q) - 1 /\ 1 < i
        BY <2>5, <3>a
      <3>1. lane'.queue[1] = q[1] /\ q[1] \in 1..MaxTicket /\ q # <<>>
        <4>1. 1 \in 1..Len(q) /\ lane'.queue[1] = q[1] /\ q # <<>>
          BY <2>2, <2>5, <2>8, <3>a, <3>b
        <4> QED BY <2>2, <4>1, ElementOfSeq
      <3>2. o # t
        BY <2>10, <3>1
      <3> QED BY <1>0, <2>1, <2>8, <2>10, <2>11, <3>1, <3>2 DEF PaceSound, HeadWaited
    <2>13. Len(lane'.queue) <= MaxQueued
      BY <2>2, <2>5, <2>8, PacerAssumption DEF PacerAssumption
    <2>14. cursorAge' \in 0..Longest /\ grantedAge' \in 0..Longest /\ cursorAge' <= grantedAge'
      BY <1>0, <2>11, LongestIs DEF PaceSound, PacerTypeOK
    <2>15. joinedAge' \in [PacedTransfers -> 0..Longest] /\ policy' \in Policies /\ switches' \in 0..MaxSwitches
      BY <1>0 DEF PaceSound, PacerTypeOK
    <2> QED BY <2>6, <2>8, <2>9, <2>10, <2>12, <2>13, <2>14, <2>15, PaceKeeps
  <1> QED BY <1>1, <1>2 DEF Abandon

LEMMA PaceStarts == PacerInit => PaceSound
  <1> SUFFICES ASSUME PacerInit PROVE PaceSound
    OBVIOUS
  <1>1. PICK q : q = <<>>
    OBVIOUS
  <1>2. q \in Seq(1..MaxTicket) /\ Len(q) = 0 /\ IsInjective(q)
    BY <1>1 DEF IsInjective
  <1>3. lane \in LaneRecord /\ lane.queue = q /\ lane.next = 0
    BY <1>1, <1>2, PacerAssumption DEF PacerInit, LaneRecord, Policies, PacerAssumption
  <1>4. waits \in [PacedTransfers -> WaitRecord] /\ joinedAge \in [PacedTransfers -> 0..Longest]
    BY NoTicketIs, LongestIs DEF PacerInit
  <1>5. PacerTypeOK
    BY <1>2, <1>3, <1>4, LongestIs, PacerAssumption DEF PacerInit, PacerTypeOK, LaneRecord, WaitRecord, PacerAssumption
  <1> QED BY <1>1, <1>2, <1>3, <1>4, <1>5, LongestIs DEF PacerInit, PaceSound, PlacesDrawn, HeadWaited

LEMMA PaceStep == PaceSound /\ [PacerNext]_pacerVars => PaceSound'
  <1> SUFFICES ASSUME PaceSound, [PacerNext]_pacerVars PROVE PaceSound'
    OBVIOUS
  <1>0. /\ lane \in LaneRecord /\ waits \in [PacedTransfers -> WaitRecord] /\ joinedAge \in [PacedTransfers -> 0..Longest]
        /\ PacerTypeOK /\ PlacesDrawn /\ HeadWaited /\ cursorAge <= grantedAge
    BY DEF PaceSound, PacerTypeOK, WaitRecord
  <1>1. CASE PolicyChanges \/ UNCHANGED pacerVars
    <2>1. UNCHANGED <<lane, cursorAge, waits, joinedAge, grantedAge>>
      BY <1>1 DEF PolicyChanges, pacerVars
    <2>2. policy' \in Policies /\ switches' \in 0..MaxSwitches
      BY <1>0, <1>1, PacerAssumption DEF PolicyChanges, pacerVars, PacerTypeOK, PacerAssumption
    <2>3. HeadWaited'
      BY <1>0, <2>1 DEF HeadWaited
    <2> QED BY <1>0, <2>1, <2>2, <2>3, PaceKeeps DEF PacerTypeOK, PlacesDrawn
  <1>2. CASE PacerClock
    <2>1. /\ UNCHANGED <<policy, switches, lane, waits>>
          /\ cursorAge' = Older(cursorAge) /\ grantedAge' = Older(grantedAge)
          /\ joinedAge' = [t \in PacedTransfers |-> Older(joinedAge[t])]
      BY <1>2 DEF PacerClock
    <2>2. /\ cursorAge' \in 0..Longest /\ grantedAge' \in 0..Longest /\ cursorAge' <= grantedAge'
      BY <1>0, <2>1, OlderKeepsOrder, LongestIs DEF PacerTypeOK
    <2>3. joinedAge' \in [PacedTransfers -> 0..Longest]
      BY <1>0, <2>1, OlderKeepsOrder, LongestIs
    <2>4. HeadWaited'
      <3> SUFFICES ASSUME NEW o \in PacedTransfers, lane.queue # <<>>, waits[o].policy = lane.policy,
                          waits[o].id = lane.queue[1]
                   PROVE  cursorAge' <= joinedAge'[o]
        BY <2>1 DEF HeadWaited
      <3>1. cursorAge <= joinedAge[o] /\ cursorAge \in 0..Longest /\ joinedAge[o] \in 0..Longest
        BY <1>0 DEF HeadWaited, PacerTypeOK
      <3> QED BY <2>1, <3>1, OlderKeepsOrder
    <2> QED BY <1>0, <2>1, <2>2, <2>3, <2>4, PaceKeeps DEF PacerTypeOK, PlacesDrawn
  <1>3. ASSUME NEW t \in PacedTransfers, StartWait(t) \/ PollPaused(t) \/ PollFree(t) \/ PollRefused(t) PROVE PaceSound'
    BY <1>3, OneWaits DEF StartWait, PollPaused, PollFree, PollRefused
  <1>4. ASSUME NEW t \in PacedTransfers, PollJoin(t) PROVE PaceSound'
    BY <1>4, JoinKeeps
  <1>5. ASSUME NEW t \in PacedTransfers, PollGranted(t) PROVE PaceSound'
    BY <1>5, GrantKeeps
  <1>6. ASSUME NEW t \in PacedTransfers, Abandon(t) PROVE PaceSound'
    BY <1>6, AbandonKeeps
  <1> QED BY <1>1, <1>2, <1>3, <1>4, <1>5, <1>6 DEF PacerNext, Poll

(***************************************************************************)
(* A part is let through only a full part's time after the one before it   *)
(* and after its transfer asked, for any rates, queue and number of        *)
(* transfers (Pacer::wait, the Drop of Ticket).                            *)
(***************************************************************************)
THEOREM PacedWithoutBurst == PacerSpec => NoBurst
  <1>1. PacerSpec => []PaceSound
    BY PaceStarts, PaceStep, PTL DEF PacerSpec
  <1>2. ASSUME PaceSound, NEW t \in PacedTransfers, PollGranted(t)
        PROVE  grantedAge >= Slow[policy] /\ joinedAge[t] >= Slow[policy]
    <2>1. policy \in DOMAIN Slow /\ HoldsPlace(t) /\ Head(Seen.queue) = waits[t].id /\ SeenAge >= Slow[policy]
      BY <1>2 DEF PollGranted
    <2>2. Slow[policy] \in Nat \ {0}
      BY <2>1, LongestIs
    <2>3. Seen.queue \in Seq(1..MaxTicket) /\ Seen.queue # <<>>
      BY <1>2, <2>1, SeenSound DEF HoldsPlace, Range, LaneRecord
    <2>4. Seen = lane /\ SeenAge = cursorAge /\ Seen.policy = policy
      BY <1>2, <2>3, SeenSound
    <2>5. waits[t].policy = lane.policy /\ waits[t].id = lane.queue[1]
      BY <2>1, <2>3, <2>4 DEF HoldsPlace
    <2>6. cursorAge <= joinedAge[t] /\ cursorAge <= grantedAge
      BY <1>2, <2>3, <2>4, <2>5 DEF PaceSound, HeadWaited
    <2>7. cursorAge \in Nat /\ grantedAge \in Nat /\ joinedAge[t] \in Nat
      BY <1>2 DEF PaceSound, PacerTypeOK
    <2> QED BY <2>1, <2>2, <2>4, <2>6, <2>7
  <1>3. PaceSound /\ [PacerNext]_pacerVars =>
          [\A t \in PacedTransfers :
             (PollGranted(t) /\ waits'[t] # waits[t]) =>
               grantedAge >= Slow[policy] /\ joinedAge[t] >= Slow[policy]]_pacerVars
    BY <1>2
  <1> QED BY <1>1, <1>3, PTL DEF PacerSpec, NoBurst

-----------------------------------------------------------------------------
(***************************************************************************)
(* The local servers.  A thread that has not yet answered belongs to a     *)
(* restart that waits for it; one that serves is installed, and if a newer *)
(* generation was drawn, the restart that drew it is still to take the     *)
(* handle.                                                                 *)
(***************************************************************************)
RestartRecord == [pc : {"idle", "request", "lock", "stop", "start", "done"}, gen : Nat]
ListenerRecord == [pc : {"none", "binding", "bound", "serving", "stopping", "stopped", "ended"}, version : Nat]
Saved == {r \in Restarts : restart[r].pc # "idle"}
Drawn == {r \in Restarts : restart[r].pc \notin {"idle", "request"}}

ServerTyped ==
  /\ settings \in [version : Nat, enabled : BOOLEAN]
  /\ restart \in [Restarts -> RestartRecord] /\ listener \in [Generations -> ListenerRecord]
  /\ installed \in Generations \cup {0} /\ operation \in Restarts \cup {0}
  /\ running \in BOOLEAN /\ closing \in BOOLEAN /\ generation \in Nat
  /\ \A r \in Drawn : restart[r].gen \in Generations /\ restart[r].gen <= generation

\* Every saved version and every generation has a command of its own.
Counted ==
  /\ settings.version = Cardinality(Saved)
  /\ generation = Cardinality(Drawn) \/ generation = Cardinality(Drawn) + 1
  /\ closing # TRUE => generation = Cardinality(Drawn)

Awaited == \A g \in Generations : listener[g].pc \in {"binding", "bound"} =>
             \E r \in Restarts : restart[r].pc = "start" /\ restart[r].gen = g
OneListens == \A g, h \in Listening : g = h
ServingInstalled == \A g \in Generations : listener[g].pc = "serving" => installed = g
ListenersDrawn == \A g \in Generations : listener[g].pc # "none" => g <= generation
Replaced == \A g \in Generations : listener[g].pc = "serving" /\ generation # g /\ closing # TRUE =>
              \E r \in Restarts : restart[r].pc = "lock" /\ restart[r].gen = generation
LatestServed == \A g \in Generations : listener[g].pc \in {"binding", "bound", "serving"} /\ generation = g =>
                  \/ listener[g].version = settings.version /\ settings.enabled = TRUE
                  \/ \E r \in Restarts : restart[r].pc = "request"

ServerSound ==
  ServerTyped /\ Counted /\ Awaited /\ OneListens /\ ServingInstalled /\ ListenersDrawn /\ Replaced /\ LatestServed

(* Counting the commands. *)
LEMMA ServerCounts ==
  ASSUME ServerTyped, Counted
  PROVE  /\ IsFiniteSet(Saved) /\ IsFiniteSet(Drawn)
         /\ Cardinality(Saved) \in 0..Cardinality(Restarts) /\ Cardinality(Drawn) \in 0..Cardinality(Restarts)
         /\ \A r \in Restarts \ Drawn : Cardinality(Drawn) < Cardinality(Restarts)
         /\ Cardinality(Restarts) \in Nat /\ Cardinality(Generations) = Cardinality(Restarts) + 1
         /\ generation <= Cardinality(Generations)
  <1>1. Cardinality(Restarts) \in Nat
    BY RestartsAssumption, FS_CardinalityType DEF RestartsAssumption
  <1>2. Saved \in SUBSET Restarts /\ Drawn \in SUBSET Restarts
    BY DEF Saved, Drawn
  <1>3. /\ IsFiniteSet(Saved) /\ Cardinality(Saved) <= Cardinality(Restarts)
    BY <1>2, RestartsAssumption, FS_Subset DEF RestartsAssumption
  <1>4. /\ IsFiniteSet(Drawn) /\ Cardinality(Drawn) <= Cardinality(Restarts)
        /\ Cardinality(Drawn) = Cardinality(Restarts) => Restarts = Drawn
    BY <1>2, RestartsAssumption, FS_Subset DEF RestartsAssumption
  <1>5. Cardinality(Saved) \in Nat /\ Cardinality(Drawn) \in Nat
    BY <1>3, <1>4, FS_CardinalityType
  <1>6. Cardinality(Generations) = Cardinality(Restarts) + 1
    BY <1>1, FS_Interval DEF Generations
  <1>7. generation = Cardinality(Drawn) \/ generation = Cardinality(Drawn) + 1
    BY DEF Counted
  <1>8. ASSUME NEW r \in Restarts \ Drawn PROVE Cardinality(Drawn) < Cardinality(Restarts)
    BY <1>1, <1>4, <1>5, <1>8
  <1> QED BY <1>1, <1>3, <1>4, <1>5, <1>6, <1>7, <1>8

(* One command goes on. *)
LEMMA RestartGoes ==
  ASSUME ServerTyped, NEW r \in Restarts, NEW pc \in {"idle", "request", "lock", "stop", "start", "done"},
         restart' = [restart EXCEPT ![r].pc = pc]
  PROVE  /\ restart' \in [Restarts -> RestartRecord] /\ restart'[r].pc = pc /\ restart'[r].gen = restart[r].gen
         /\ \A o \in Restarts \ {r} : restart'[o] = restart[o]
  <1>1. PICK k : k = [restart[r] EXCEPT !.pc = pc]
    OBVIOUS
  <1>2. k \in RestartRecord /\ k.pc = pc /\ k.gen = restart[r].gen
    BY <1>1 DEF ServerTyped, RestartRecord
  <1>3. restart' = [restart EXCEPT ![r] = k]
    BY <1>1
  <1> QED BY <1>2, <1>3 DEF ServerTyped

\* It drew its generation before: nothing is counted.
LEMMA CountsStay ==
  ASSUME ServerTyped, Counted, NEW r \in Drawn, restart'[r].pc \notin {"idle", "request"},
         \A o \in Restarts \ {r} : restart'[o] = restart[o], UNCHANGED <<settings, generation, closing>>
  PROVE  Counted' /\ Drawn' = Drawn
  <1>1. Saved' = Saved /\ Drawn' = Drawn
    BY DEF Saved, Drawn
  <1> QED BY <1>1 DEF Counted

LEMMA ListenerGoes ==
  ASSUME ServerTyped, NEW g \in Generations, NEW pc \in {"bound", "serving", "stopped", "ended"},
         listener' = [listener EXCEPT ![g].pc = pc]
  PROVE  /\ listener' \in [Generations -> ListenerRecord] /\ listener'[g].pc = pc
         /\ listener'[g].version = listener[g].version
         /\ \A h \in Generations \ {g} : listener'[h] = listener[h]
  <1>1. PICK k : k = [listener[g] EXCEPT !.pc = pc]
    OBVIOUS
  <1>2. k \in ListenerRecord /\ k.pc = pc /\ k.version = listener[g].version
    BY <1>1 DEF ServerTyped, ListenerRecord
  <1>3. listener' = [listener EXCEPT ![g] = k]
    BY <1>1
  <1> QED BY <1>2, <1>3 DEF ServerTyped

LEMMA HandleTaken ==
  ASSUME ServerSound, TakeHandle
  PROVE  /\ listener' \in [Generations -> ListenerRecord] /\ installed' = 0 /\ running' = FALSE
         /\ \A g \in Generations : /\ listener'[g].pc # "serving" /\ listener'[g].version = listener[g].version
                                   /\ listener[g].pc = "serving" => listener'[g].pc = "stopping"
                                   /\ listener[g].pc # "serving" => listener'[g] = listener[g]
  <1>1. /\ installed' = 0 /\ running' = FALSE
        /\ listener' = [g \in Generations |->
                    IF g = installed /\ listener[g].pc = "serving"
                    THEN [listener[g] EXCEPT !.pc = "stopping"] ELSE listener[g]]
    BY DEF TakeHandle
  <1>2. ASSUME NEW g \in Generations
        PROVE  /\ listener'[g] \in ListenerRecord /\ listener'[g].pc # "serving" /\ listener'[g].version = listener[g].version
               /\ listener[g].pc = "serving" => listener'[g].pc = "stopping"
               /\ listener[g].pc # "serving" => listener'[g] = listener[g]
    <2>1. listener[g] \in ListenerRecord
      BY DEF ServerSound, ServerTyped
    <2>2. CASE listener[g].pc = "serving"
      <3>1. installed = g
        BY <2>2 DEF ServerSound, ServingInstalled
      <3>2. listener'[g] = [listener[g] EXCEPT !.pc = "stopping"]
        BY <1>1, <2>2, <3>1
      <3> QED BY <2>1, <2>2, <3>2 DEF ListenerRecord
    <2>3. CASE listener[g].pc # "serving"
      <3>1. listener'[g] = listener[g]
        BY <1>1, <2>3
      <3> QED BY <2>1, <2>3, <3>1
    <2> QED BY <2>2, <2>3
  <1>3. listener' \in [Generations -> ListenerRecord]
    BY <1>1, <1>2
  <1> QED BY <1>1, <1>2, <1>3

LEMMA SaveKeeps ==
  ASSUME ServerSound, NEW r \in Restarts, SaveSettings(r)
  PROVE  ServerSound'
  <1>0. ServerTyped /\ Counted /\ restart[r].pc = "idle"
    BY DEF ServerSound, SaveSettings
  <1>1. PICK e \in BOOLEAN : settings' = [version |-> settings.version + 1, enabled |-> e]
    BY DEF SaveSettings, SettingsSaved
  <1>2. restart' = [restart EXCEPT ![r].pc = "request"] /\ UNCHANGED <<generation, installed, running, operation, listener, closing>>
    BY DEF SaveSettings
  <1>3. /\ restart' \in [Restarts -> RestartRecord] /\ restart'[r].pc = "request"
        /\ \A o \in Restarts \ {r} : restart'[o] = restart[o]
    BY <1>0, <1>2, RestartGoes
  <1>4. settings' \in [version : Nat, enabled : BOOLEAN] /\ settings'.version = settings.version + 1
    BY <1>0, <1>1 DEF ServerTyped
  <1>5. Drawn' = Drawn /\ Saved' = Saved \cup {r} /\ r \notin Saved /\ r \notin Drawn
    BY <1>0, <1>3 DEF Drawn, Saved
  <1>6. Cardinality(Saved') = Cardinality(Saved) + 1
    BY <1>0, <1>5, ServerCounts, FS_AddElement
  <1>7. Counted'
    BY <1>0, <1>2, <1>4, <1>5, <1>6 DEF Counted
  <1>8. ServerTyped'
    BY <1>0, <1>2, <1>3, <1>4, <1>5 DEF ServerTyped, Generations, Drawn
  <1>9. Awaited' /\ OneListens' /\ ServingInstalled' /\ ListenersDrawn' /\ Replaced' /\ LatestServed'
    <2>1. Awaited'
      BY <1>0, <1>2, <1>3 DEF ServerSound, Awaited, Generations
    <2>2. OneListens' /\ ServingInstalled' /\ ListenersDrawn'
      BY <1>2 DEF ServerSound, OneListens, Listening, ServingInstalled, ListenersDrawn, Generations
    <2>3. Replaced'
      BY <1>0, <1>2, <1>3 DEF ServerSound, Replaced, Generations
    <2>4. LatestServed'
      BY <1>3 DEF LatestServed
    <2> QED BY <2>1, <2>2, <2>3, <2>4
  <1> QED BY <1>7, <1>8, <1>9 DEF ServerSound

LEMMA RequestKeeps ==
  ASSUME ServerSound, NEW r \in Restarts, RequestRestart(r)
  PROVE  ServerSound'
  <1>0. ServerTyped /\ Counted /\ restart[r].pc = "request" /\ generation \in Nat
    BY DEF ServerSound, RequestRestart, ServerTyped
  <1>1. /\ generation' = generation + 1 /\ running' = FALSE
        /\ restart' = [restart EXCEPT ![r] = [pc |-> "lock", gen |-> generation + 1]]
        /\ UNCHANGED <<settings, installed, operation, listener, closing>>
    BY DEF RequestRestart
  <1>2. PICK k : k = [pc |-> "lock", gen |-> generation + 1]
    OBVIOUS
  <1>3. k \in RestartRecord /\ k.pc = "lock" /\ k.gen = generation + 1
    BY <1>0, <1>2 DEF RestartRecord
  <1>4. restart' \in [Restarts -> RestartRecord] /\ restart'[r] = k /\ \A o \in Restarts \ {r} : restart'[o] = restart[o]
    BY <1>0, <1>1, <1>2, <1>3 DEF ServerTyped
  <1>5. Saved' = Saved /\ Drawn' = Drawn \cup {r} /\ r \notin Drawn
    BY <1>0, <1>3, <1>4 DEF Drawn, Saved
  <1>6. Cardinality(Drawn') = Cardinality(Drawn) + 1 /\ Cardinality(Drawn) \in Nat
        /\ Cardinality(Drawn) < Cardinality(Restarts)
    <2>1. /\ IsFiniteSet(Drawn) /\ Cardinality(Drawn) \in 0..Cardinality(Restarts) /\ r \in Restarts \ Drawn
          /\ Cardinality(Restarts) \in Nat
          /\ \A o \in Restarts \ Drawn : Cardinality(Drawn) < Cardinality(Restarts)
      BY <1>0, <1>5, ServerCounts
    <2>2. Cardinality(Drawn') = Cardinality(Drawn) + 1
      BY <1>5, <2>1, FS_AddElement
    <2> QED BY <2>1, <2>2
  <1>7. Counted'
    BY <1>0, <1>1, <1>5, <1>6 DEF Counted
  <1>8. generation + 1 \in Generations
    <2>1. generation = Cardinality(Drawn) \/ generation = Cardinality(Drawn) + 1
      BY <1>0 DEF Counted
    <2> QED BY <1>0, <1>6, <2>1, ServerCounts DEF Generations
  <1>9. ServerTyped'
    <2>1. \A o \in Drawn' : restart'[o].gen \in Generations /\ restart'[o].gen <= generation'
      <3> SUFFICES ASSUME NEW o \in Drawn' PROVE restart'[o].gen \in Generations /\ restart'[o].gen <= generation'
        OBVIOUS
      <3>1. CASE o = r
        BY <1>0, <1>1, <1>3, <1>4, <1>8, <3>1
      <3>2. CASE o # r
        <4>1. o \in Drawn /\ o \in Restarts /\ restart'[o] = restart[o]
          BY <1>4, <1>5, <3>2 DEF Drawn
        <4>2. restart[o].gen \in Generations /\ restart[o].gen <= generation /\ restart[o].gen \in Nat
          BY <1>0, <4>1 DEF ServerTyped, RestartRecord
        <4> QED BY <1>0, <1>1, <4>1, <4>2
      <3> QED BY <3>1, <3>2
    <2>2. Generations' = Generations
      BY DEF Generations
    <2>3. generation' \in Nat
      BY <1>0, <1>1
    <2>4. running' \in BOOLEAN /\ closing' \in BOOLEAN
      BY <1>0, <1>1 DEF ServerTyped
    <2> QED BY <1>0, <1>1, <1>4, <2>1, <2>2, <2>3, <2>4 DEF ServerTyped
  <1>10. Awaited' /\ OneListens' /\ ServingInstalled'
    <2>1. Awaited'
      BY <1>0, <1>1, <1>4 DEF ServerSound, Awaited, Generations
    <2>2. OneListens' /\ ServingInstalled'
      BY <1>1 DEF ServerSound, OneListens, Listening, ServingInstalled, Generations
    <2> QED BY <2>1, <2>2
  <1>11. ListenersDrawn'
    <2> SUFFICES ASSUME NEW g \in Generations, listener[g].pc # "none" PROVE g <= generation + 1
      BY <1>1 DEF ListenersDrawn, Generations
    <2>1. g <= generation /\ g \in Int
      BY DEF ServerSound, ListenersDrawn, Generations
    <2> QED BY <1>0, <2>1
  <1>12. Replaced'
    BY <1>1, <1>3, <1>4 DEF Replaced
  <1>13. LatestServed'
    <2> SUFFICES ASSUME NEW g \in Generations, listener[g].pc \in {"binding", "bound", "serving"}, generation + 1 = g
                 PROVE  FALSE
      BY <1>1 DEF LatestServed, Generations
    <2>1. g <= generation /\ g \in Int
      BY DEF ServerSound, ListenersDrawn, Generations
    <2> QED BY <1>0, <2>1
  <1> QED BY <1>7, <1>9, <1>10, <1>11, <1>12, <1>13 DEF ServerSound

LEMMA LockKeeps ==
  ASSUME ServerSound, NEW r \in Restarts, LockOperation(r)
  PROVE  ServerSound'
  <1>0. ServerTyped /\ Counted /\ restart[r].pc = "lock" /\ r \in Drawn /\ UNCHANGED <<settings, generation, closing>>
    BY DEF ServerSound, LockOperation, Drawn
  <1>1. CASE /\ ~IsCurrent(r) /\ restart' = [restart EXCEPT ![r].pc = "done"]
             /\ UNCHANGED <<operation, installed, running, listener>>
    <2>1. /\ restart' \in [Restarts -> RestartRecord] /\ restart'[r].pc = "done" /\ restart'[r].gen = restart[r].gen
          /\ \A o \in Restarts \ {r} : restart'[o] = restart[o]
      BY <1>0, <1>1, RestartGoes
    <2>2. Counted' /\ Drawn' = Drawn
      BY <1>0, <2>1, CountsStay
    <2>3. ServerTyped'
      BY <1>0, <1>1, <2>1, <2>2 DEF ServerTyped, Generations, Drawn
    <2>4. Awaited' /\ OneListens' /\ ServingInstalled' /\ ListenersDrawn'
      <3>1. Awaited'
        BY <1>0, <1>1, <2>1 DEF ServerSound, Awaited, Generations
      <3>2. OneListens' /\ ServingInstalled' /\ ListenersDrawn'
        BY <1>0, <1>1 DEF ServerSound, OneListens, Listening, ServingInstalled, ListenersDrawn, Generations
      <3> QED BY <3>1, <3>2
    <2>5. Replaced' /\ LatestServed'
      <3>1. Replaced'
        BY <1>0, <1>1, <2>1 DEF ServerSound, Replaced, Generations, IsCurrent
      <3>2. LatestServed'
        BY <1>0, <1>1, <2>1 DEF ServerSound, LatestServed, Generations
      <3> QED BY <3>1, <3>2
    <2> QED BY <2>2, <2>3, <2>4, <2>5 DEF ServerSound
  <1>2. CASE TakeHandle /\ operation' = r /\ restart' = [restart EXCEPT ![r].pc = "stop"]
    <2>1. /\ restart' \in [Restarts -> RestartRecord] /\ restart'[r].pc = "stop" /\ restart'[r].gen = restart[r].gen
          /\ \A o \in Restarts \ {r} : restart'[o] = restart[o]
      BY <1>0, <1>2, RestartGoes
    <2>2. Counted' /\ Drawn' = Drawn
      BY <1>0, <2>1, CountsStay
    <2>3. /\ listener' \in [Generations -> ListenerRecord] /\ installed' = 0 /\ running' = FALSE
          /\ \A g \in Generations : /\ listener'[g].pc # "serving" /\ listener'[g].version = listener[g].version
                                    /\ listener[g].pc = "serving" => listener'[g].pc = "stopping"
                                    /\ listener[g].pc # "serving" => listener'[g] = listener[g]
      BY <1>2, HandleTaken
    <2>4. ServerTyped'
      BY <1>0, <1>2, <2>1, <2>2, <2>3 DEF ServerTyped, Generations, Drawn
    <2>5. Awaited' /\ OneListens' /\ ServingInstalled' /\ ListenersDrawn' /\ Replaced'
      <3>1. Awaited'
        BY <1>0, <2>1, <2>3 DEF ServerSound, Awaited, Generations
      <3>2. OneListens'
        BY <2>3 DEF ServerSound, OneListens, Listening, Generations
      <3>3. ServingInstalled' /\ Replaced'
        BY <2>3 DEF ServingInstalled, Replaced, Generations
      <3>4. ListenersDrawn'
        BY <1>0, <2>3 DEF ServerSound, ListenersDrawn, Generations
      <3> QED BY <3>1, <3>2, <3>3, <3>4
    <2>6. LatestServed'
      BY <1>0, <2>1, <2>3 DEF ServerSound, LatestServed, Generations
    <2> QED BY <2>2, <2>4, <2>5, <2>6 DEF ServerSound
  <1> QED BY <1>1, <1>2 DEF LockOperation

LEMMA StoppedKeeps ==
  ASSUME ServerSound, NEW r \in Restarts, Stopped(r)
  PROVE  ServerSound'
  <1>0. /\ ServerTyped /\ Counted /\ restart[r].pc = "stop" /\ r \in Drawn
        /\ UNCHANGED <<settings, generation, installed, running, closing>>
    BY DEF ServerSound, Stopped, Drawn
  <1>1. CASE ReleaseOperation(r) /\ UNCHANGED listener
    <2>1. /\ restart' \in [Restarts -> RestartRecord] /\ restart'[r].pc = "done" /\ restart'[r].gen = restart[r].gen
          /\ \A o \in Restarts \ {r} : restart'[o] = restart[o]
      BY <1>0, <1>1, RestartGoes DEF ReleaseOperation
    <2>2. Counted' /\ Drawn' = Drawn
      BY <1>0, <2>1, CountsStay
    <2>3. ServerTyped'
      BY <1>0, <1>1, <2>1, <2>2 DEF ServerTyped, Generations, Drawn, ReleaseOperation
    <2>4. Awaited' /\ OneListens' /\ ServingInstalled' /\ ListenersDrawn' /\ Replaced' /\ LatestServed'
      <3>1. Awaited'
        BY <1>0, <1>1, <2>1 DEF ServerSound, Awaited, Generations
      <3>2. OneListens' /\ ServingInstalled' /\ ListenersDrawn'
        BY <1>0, <1>1 DEF ServerSound, OneListens, Listening, ServingInstalled, ListenersDrawn, Generations
      <3>3. Replaced'
        BY <1>0, <1>1, <2>1 DEF ServerSound, Replaced, Generations
      <3>4. LatestServed'
        BY <1>0, <1>1, <2>1 DEF ServerSound, LatestServed, Generations
      <3> QED BY <3>1, <3>2, <3>3, <3>4
    <2> QED BY <2>2, <2>3, <2>4 DEF ServerSound
  <1>2. CASE /\ IsCurrent(r) /\ settings.enabled
             /\ listener' = [listener EXCEPT ![restart[r].gen] = [pc |-> "binding", version |-> settings.version]]
             /\ restart' = [restart EXCEPT ![r].pc = "start"] /\ UNCHANGED operation
    <2>1. /\ restart' \in [Restarts -> RestartRecord] /\ restart'[r].pc = "start" /\ restart'[r].gen = restart[r].gen
          /\ \A o \in Restarts \ {r} : restart'[o] = restart[o]
      BY <1>0, <1>2, RestartGoes
    <2>2. Counted' /\ Drawn' = Drawn
      BY <1>0, <2>1, CountsStay
    <2>3. PICK g, k : g = restart[r].gen /\ k = [pc |-> "binding", version |-> settings.version]
      OBVIOUS
    <2>4. g \in Generations /\ g = generation /\ k \in ListenerRecord /\ k.pc = "binding" /\ k.version = settings.version
      BY <1>0, <1>2, <2>3 DEF ServerTyped, ListenerRecord, IsCurrent
    <2>5. listener' \in [Generations -> ListenerRecord] /\ listener'[g] = k
          /\ \A h \in Generations \ {g} : listener'[h] = listener[h]
      BY <1>0, <1>2, <2>3, <2>4 DEF ServerTyped
    <2>6. ServerTyped'
      BY <1>0, <1>2, <2>1, <2>2, <2>5 DEF ServerTyped, Generations, Drawn
    <2>7. Awaited' /\ OneListens' /\ ServingInstalled'
      <3>1. Awaited'
        <4> SUFFICES ASSUME NEW h \in Generations, listener'[h].pc \in {"binding", "bound"}
                     PROVE  \E o \in Restarts : restart'[o].pc = "start" /\ restart'[o].gen = h
          BY DEF Awaited, Generations
        <4>1. CASE h = g
          BY <2>1, <2>3, <4>1
        <4>2. CASE h # g
          <5>1. PICK o \in Restarts : restart[o].pc = "start" /\ restart[o].gen = h
            BY <2>5, <4>2 DEF ServerSound, Awaited
          <5>2. o # r
            BY <1>0, <5>1
          <5> QED BY <2>1, <5>1, <5>2
        <4> QED BY <4>1, <4>2
      <3>2. OneListens'
        BY <2>4, <2>5 DEF ServerSound, OneListens, Listening, Generations
      <3>3. ServingInstalled'
        BY <1>0, <2>4, <2>5 DEF ServerSound, ServingInstalled, Generations
      <3> QED BY <3>1, <3>2, <3>3
    <2>8. ListenersDrawn'
      BY <1>0, <2>4, <2>5 DEF ServerSound, ServerTyped, ListenersDrawn, Generations
    <2>9. Replaced'
      BY <1>0, <2>1, <2>4, <2>5 DEF ServerSound, Replaced, Generations
    <2>10. LatestServed'
      <3>1. settings.enabled = TRUE
        BY <1>0, <1>2 DEF ServerTyped
      <3> QED BY <1>0, <2>1, <2>4, <2>5, <3>1 DEF ServerSound, LatestServed, Generations
    <2> QED BY <2>2, <2>6, <2>7, <2>8, <2>9, <2>10 DEF ServerSound
  <1> QED BY <1>1, <1>2 DEF Stopped

LEMMA AnsweredKeeps ==
  ASSUME ServerSound, NEW r \in Restarts, StartupAnswered(r)
  PROVE  ServerSound'
  <1>0. /\ ServerTyped /\ Counted /\ restart[r].pc = "start" /\ r \in Drawn /\ ReleaseOperation(r)
        /\ listener[restart[r].gen].pc \notin {"binding", "bound"}
        /\ UNCHANGED <<settings, generation, installed, running, listener, closing>>
    BY DEF ServerSound, StartupAnswered, Drawn
  <1>1. /\ restart' \in [Restarts -> RestartRecord] /\ restart'[r].pc = "done" /\ restart'[r].gen = restart[r].gen
        /\ \A o \in Restarts \ {r} : restart'[o] = restart[o]
    BY <1>0, RestartGoes DEF ReleaseOperation
  <1>2. Counted' /\ Drawn' = Drawn
    BY <1>0, <1>1, CountsStay
  <1>3. ServerTyped'
    BY <1>0, <1>1, <1>2 DEF ServerTyped, Generations, Drawn, ReleaseOperation
  <1>4. Awaited' /\ OneListens' /\ ServingInstalled' /\ ListenersDrawn' /\ Replaced' /\ LatestServed'
    <2>1. Awaited'
      BY <1>0, <1>1 DEF ServerSound, Awaited, Generations
    <2>2. OneListens' /\ ServingInstalled' /\ ListenersDrawn'
      BY <1>0 DEF ServerSound, OneListens, Listening, ServingInstalled, ListenersDrawn, Generations
    <2>3. Replaced'
      BY <1>0, <1>1 DEF ServerSound, Replaced, Generations
    <2>4. LatestServed'
      BY <1>0, <1>1 DEF ServerSound, LatestServed, Generations
    <2> QED BY <2>1, <2>2, <2>3, <2>4
  <1> QED BY <1>2, <1>3, <1>4 DEF ServerSound

(* A thread of the server of generation g. *)
LEMMA ThreadKeeps ==
  ASSUME ServerSound, NEW g \in Generations, Bind(g) \/ InstallHandle(g) \/ ServerStops(g) \/ ServerFinished(g)
  PROVE  ServerSound'
  <1>0. /\ ServerTyped /\ Counted /\ UNCHANGED <<settings, generation, operation, restart, closing>>
        /\ Drawn' = Drawn /\ Saved' = Saved /\ Generations' = Generations
    BY DEF ServerSound, Bind, InstallHandle, ServerStops, ServerFinished, Drawn, Saved, Generations
  <1>1. Counted'
    BY <1>0 DEF Counted
  <1>2. PICK pc \in {"bound", "serving", "stopped", "ended"} : listener' = [listener EXCEPT ![g].pc = pc]
    BY DEF Bind, InstallHandle, ServerStops, ServerFinished
  <1>3. /\ listener' \in [Generations -> ListenerRecord] /\ listener'[g].pc = pc
        /\ listener'[g].version = listener[g].version
        /\ \A h \in Generations \ {g} : listener'[h] = listener[h]
    BY <1>0, <1>2, ListenerGoes
  <1>4. /\ installed' \in {installed, g, 0} /\ installed' \in Generations \cup {0}
        /\ pc = "bound" => listener[g].pc = "binding" /\ Listening = {} /\ generation = g
        /\ pc = "serving" => listener[g].pc = "bound" /\ installed' = g /\ generation = g
        /\ installed' # installed => pc = "serving" \/ (installed = g /\ installed' = 0 /\ listener[g].pc = "stopped")
        /\ listener[g].pc # "none"
    <2>1. installed \in Generations \cup {0}
      BY <1>0 DEF ServerTyped
    <2>2. CASE Bind(g)
      <3>1. installed' = installed /\ listener[g].pc = "binding"
        BY <2>2 DEF Bind
      <3>2. pc = "ended" \/ (pc = "bound" /\ Listening = {} /\ generation = g)
        <4>1. CASE generation = g /\ Listening = {} /\ listener' = [listener EXCEPT ![g].pc = "bound"]
          BY <1>0, <1>3, <4>1, ListenerGoes
        <4>2. CASE listener' = [listener EXCEPT ![g].pc = "ended"]
          BY <1>0, <1>3, <4>2, ListenerGoes
        <4> QED BY <2>2, <4>1, <4>2 DEF Bind
      <3> QED BY <2>1, <3>1, <3>2
    <2>3. CASE InstallHandle(g)
      <3>1. listener[g].pc = "bound"
        BY <2>3 DEF InstallHandle
      <3>2. \/ pc = "ended" /\ installed' = installed
            \/ pc = "serving" /\ installed' = g /\ generation = g
        <4>1. CASE generation = g /\ installed' = g /\ listener' = [listener EXCEPT ![g].pc = "serving"]
          BY <1>0, <1>3, <4>1, ListenerGoes
        <4>2. CASE installed' = installed /\ listener' = [listener EXCEPT ![g].pc = "ended"]
          BY <1>0, <1>3, <4>2, ListenerGoes
        <4> QED BY <2>3, <4>1, <4>2 DEF InstallHandle
      <3> QED BY <2>1, <3>1, <3>2
    <2>4. CASE ServerStops(g)
      BY <1>3, <2>1, <2>4 DEF ServerStops
    <2>5. CASE ServerFinished(g)
      BY <1>3, <2>1, <2>5 DEF ServerFinished
    <2> QED BY <2>2, <2>3, <2>4, <2>5
  <1>5. running' \in BOOLEAN
    <2>1. running' = running \/ running' = TRUE \/ running' = FALSE
      BY DEF Bind, InstallHandle, ServerStops, ServerFinished
    <2> QED BY <1>0, <2>1 DEF ServerTyped
  <1>6. ServerTyped'
    BY <1>0, <1>3, <1>4, <1>5 DEF ServerTyped
  <1>7. Awaited'
    BY <1>0, <1>3, <1>4 DEF ServerSound, Awaited
  <1>8. OneListens'
    BY <1>0, <1>3, <1>4 DEF ServerSound, OneListens, Listening
  <1>9. ServingInstalled'
    BY <1>0, <1>3, <1>4 DEF ServerSound, ServingInstalled, OneListens, Listening
  <1>10. ListenersDrawn'
    BY <1>0, <1>3, <1>4 DEF ServerSound, ListenersDrawn
  <1>11. Replaced' /\ LatestServed'
    BY <1>0, <1>3, <1>4 DEF ServerSound, Replaced, LatestServed
  <1> QED BY <1>1, <1>6, <1>7, <1>8, <1>9, <1>10, <1>11 DEF ServerSound

LEMMA ShutdownKeeps ==
  ASSUME ServerSound, BeginShutdown
  PROVE  ServerSound'
  <1>0. /\ ServerTyped /\ Counted /\ TakeHandle /\ ~closing /\ closing' = TRUE /\ generation' = generation + 1
        /\ UNCHANGED <<settings, operation, restart>> /\ generation \in Nat
        /\ Drawn' = Drawn /\ Saved' = Saved /\ Generations' = Generations
    BY DEF ServerSound, BeginShutdown, Drawn, Saved, Generations, ServerTyped
  <1>1. /\ listener' \in [Generations -> ListenerRecord] /\ installed' = 0 /\ running' = FALSE
        /\ \A g \in Generations : /\ listener'[g].pc # "serving" /\ listener'[g].version = listener[g].version
                                  /\ listener[g].pc = "serving" => listener'[g].pc = "stopping"
                                  /\ listener[g].pc # "serving" => listener'[g] = listener[g]
    BY <1>0, HandleTaken
  <1>2. Counted'
    <2>1. generation = Cardinality(Drawn) /\ Cardinality(Drawn) \in Nat
      BY <1>0, ServerCounts DEF Counted
    <2> QED BY <1>0, <2>1 DEF Counted
  <1>3. ServerTyped'
    <2>1. \A r \in Drawn' : restart'[r].gen \in Generations /\ restart'[r].gen <= generation'
      <3> SUFFICES ASSUME NEW r \in Drawn PROVE restart[r].gen \in Generations /\ restart[r].gen <= generation + 1
        BY <1>0
      <3>1. restart[r].gen \in Nat /\ restart[r].gen \in Generations /\ restart[r].gen <= generation
        BY <1>0 DEF ServerTyped, RestartRecord, Drawn
      <3> QED BY <1>0, <3>1
    <2>2. closing' \in BOOLEAN /\ running' \in BOOLEAN
      BY <1>0, <1>1
    <2> QED BY <1>0, <1>1, <2>1, <2>2 DEF ServerTyped
  <1>4. Awaited' /\ OneListens' /\ ServingInstalled' /\ Replaced'
    <2>1. Awaited'
      BY <1>0, <1>1 DEF ServerSound, Awaited
    <2>2. OneListens'
      BY <1>0, <1>1 DEF ServerSound, OneListens, Listening
    <2>3. ServingInstalled' /\ Replaced'
      BY <1>0, <1>1 DEF ServingInstalled, Replaced
    <2> QED BY <2>1, <2>2, <2>3
  <1>5. ListenersDrawn' /\ LatestServed'
    <2>1. ASSUME NEW g \in Generations, listener'[g].pc # "none" PROVE g <= generation
      BY <1>1, <2>1 DEF ServerSound, ListenersDrawn
    <2>2. \A g \in Generations : g \in Int
      BY DEF Generations
    <2>3. ASSUME NEW g \in Generations, listener'[g].pc # "none" PROVE g <= generation + 1 /\ generation + 1 # g
      BY <1>0, <2>1, <2>2, <2>3
    <2> QED BY <1>0, <2>3 DEF ListenersDrawn, LatestServed
  <1> QED BY <1>2, <1>3, <1>4, <1>5 DEF ServerSound

LEMMA ServerStep == ServerSound /\ [ServerNext]_serverVars => ServerSound'
  <1> SUFFICES ASSUME ServerSound, [ServerNext]_serverVars PROVE ServerSound'
    OBVIOUS
  <1>1. CASE UNCHANGED serverVars
    <2>1. ServerTyped' /\ Counted'
      BY <1>1 DEF serverVars, ServerSound, ServerTyped, Counted, Generations, Drawn, Saved
    <2>2. Awaited' /\ OneListens' /\ ServingInstalled' /\ ListenersDrawn'
      BY <1>1 DEF serverVars, ServerSound, Awaited, OneListens, Listening, ServingInstalled, ListenersDrawn, Generations
    <2>3. Replaced' /\ LatestServed'
      BY <1>1 DEF serverVars, ServerSound, Replaced, LatestServed, Generations
    <2> QED BY <2>1, <2>2, <2>3 DEF ServerSound
  <1>2. ASSUME NEW r \in Restarts,
               SaveSettings(r) \/ RequestRestart(r) \/ LockOperation(r) \/ Stopped(r) \/ StartupAnswered(r)
        PROVE  ServerSound'
    BY <1>2, SaveKeeps, RequestKeeps, LockKeeps, StoppedKeeps, AnsweredKeeps
  <1>3. ASSUME NEW g \in Generations, Bind(g) \/ InstallHandle(g) \/ ServerStops(g) \/ ServerFinished(g) PROVE ServerSound'
    BY <1>3, ThreadKeeps
  <1>4. CASE BeginShutdown
    BY <1>4, ShutdownKeeps
  <1> QED BY <1>1, <1>2, <1>3, <1>4 DEF ServerNext

LEMMA ServerStarts == ServerInit => ServerSound
  <1> SUFFICES ASSUME ServerInit PROVE ServerSound
    OBVIOUS
  <1>1. /\ settings = [version |-> 0, enabled |-> FALSE] /\ generation = 0 /\ installed = 0 /\ running = FALSE
        /\ operation = 0 /\ restart = [r \in Restarts |-> [pc |-> "idle", gen |-> 0]]
        /\ listener = [g \in Generations |-> NoListener] /\ closing = FALSE
    BY DEF ServerInit
  <1>2. PICK k : k = [pc |-> "idle", gen |-> 0]
    OBVIOUS
  <1>3. k \in RestartRecord /\ k.pc = "idle" /\ NoListener \in ListenerRecord /\ NoListener.pc = "none"
    BY <1>2 DEF RestartRecord, ListenerRecord, NoListener
  <1>4. restart \in [Restarts -> RestartRecord] /\ \A r \in Restarts : restart[r].pc = "idle"
    BY <1>1, <1>2, <1>3
  <1>5. listener \in [Generations -> ListenerRecord] /\ \A g \in Generations : listener[g].pc = "none"
    BY <1>1, <1>3
  <1>6. Drawn = {} /\ Saved = {}
    BY <1>4 DEF Drawn, Saved
  <1>7. Counted
    BY <1>1, <1>6, FS_EmptySet DEF Counted
  <1>8. ServerTyped
    BY <1>1, <1>4, <1>5, <1>6 DEF ServerTyped
  <1>9. Awaited /\ OneListens /\ ServingInstalled /\ ListenersDrawn /\ Replaced /\ LatestServed
    BY <1>5 DEF Awaited, OneListens, Listening, ServingInstalled, ListenersDrawn, Replaced, LatestServed
  <1> QED BY <1>7, <1>8, <1>9 DEF ServerSound

(***************************************************************************)
(* Once the restarts are over, a server that accepts connections runs with *)
(* the settings of the file and is the one a later restart stops, for any  *)
(* number of settings commands at once (server_lifecycle.rs,               *)
(* restart_api_server, restart_webdav_server).                             *)
(***************************************************************************)
THEOREM ServerInvariant == ServerSpec => [](ServerTypeOK /\ OnlyCurrentServed)
  <1>1. ServerSpec => []ServerSound
    BY ServerStarts, ServerStep, PTL DEF ServerSpec
  <1>2. ServerSound => ServerTypeOK /\ OnlyCurrentServed
    <2> SUFFICES ASSUME ServerSound PROVE ServerTypeOK /\ OnlyCurrentServed
      OBVIOUS
    <2>1. ServerTypeOK
      <3>1. settings.version \in 0..Cardinality(Restarts) /\ generation \in 0..Cardinality(Generations)
        <4>1. ServerTyped /\ Counted
          BY DEF ServerSound
        <4>2. /\ Cardinality(Saved) \in 0..Cardinality(Restarts) /\ generation <= Cardinality(Generations)
              /\ Cardinality(Restarts) \in Nat /\ Cardinality(Generations) = Cardinality(Restarts) + 1
          BY <4>1, ServerCounts
        <4>3. settings.version = Cardinality(Saved) /\ generation \in Nat
          BY <4>1 DEF ServerTyped, Counted
        <4> QED BY <4>2, <4>3
      <3> QED BY <3>1 DEF ServerSound, ServerTyped, ServerTypeOK, ListenerRecord
    <2>2. OnlyCurrentServed
      <3> SUFFICES ASSUME RestartsSettled, ~closing, NEW g \in Generations, listener[g].pc \in {"bound", "serving"}
                   PROVE  /\ listener[g].version = settings.version /\ settings.enabled
                          /\ installed = g
        BY DEF OnlyCurrentServed
      <3>1. \A r \in Restarts : restart[r].pc \in {"idle", "done"} \/ restart[r].pc = "request"
        BY DEF RestartsSettled
      <3>2. \A r \in Restarts : restart[r].pc \in {"idle", "done"}
        BY DEF RestartsSettled
      <3>3. listener[g].pc = "serving"
        BY <3>2 DEF ServerSound, Awaited
      <3>4. generation = g
        BY <3>2, <3>3 DEF ServerSound, Replaced
      <3>5. listener[g].version = settings.version /\ settings.enabled = TRUE
        BY <3>2, <3>3, <3>4 DEF ServerSound, LatestServed
      <3>6. installed = g
        BY <3>3 DEF ServerSound, ServingInstalled
      <3> QED BY <3>5, <3>6
    <2> QED BY <2>1, <2>2
  <1> QED BY <1>1, <1>2, PTL

-----------------------------------------------------------------------------
(***************************************************************************)
(* The sessions of an open vault.                                          *)
(***************************************************************************)
SessionsSound ==
  /\ session \in 0 .. MaxOpen /\ sessionCount \in 0 .. MaxOpen /\ sessionKeys \subseteq 1 .. MaxOpen
  /\ opHandle \in [Workers -> 0 .. MaxOpen] /\ holdsKey \in [Workers -> 0 .. MaxOpen]
  /\ supervisor \in {"read", "sleep", "wait"}
  /\ promptSecret \in BOOLEAN /\ timeoutSet \in BOOLEAN /\ idleTooLong \in BOOLEAN /\ permit \in BOOLEAN
  /\ session # 0 => session \in sessionKeys
  /\ session <= sessionCount
  /\ \A w \in Workers : opHandle[w] <= sessionCount /\ holdsKey[w] <= sessionCount
  /\ oldHandles \subseteq Workers /\ \A w \in oldHandles : opHandle[w] \notin {0, session}
  /\ oldKeys \subseteq Workers /\ \A w \in oldKeys : holdsKey[w] \notin {0, session}
  /\ staleUse = FALSE

LEMMA RevokeKeeps ==
  ASSUME SessionsSound, Revoke, supervisor' \in {"read", "sleep", "wait"}
  PROVE  SessionsSound'
  <1>1. session' = 0 /\ sessionKeys' = {} /\ opHandle' = [w \in Workers |-> 0] /\ promptSecret' = FALSE
        /\ idleTooLong' = FALSE /\ permit' = TRUE /\ oldHandles' = {} /\ oldKeys' = {w \in Workers : holdsKey[w] # 0}
        /\ UNCHANGED <<sessionCount, holdsKey, staleUse, timeoutSet>>
    BY DEF Revoke, HaveKey
  <1>2. 0 \in 0 .. MaxOpen
    BY MaxOpenAssumption DEF MaxOpenAssumption
  <1>3. \A w \in Workers : opHandle'[w] = 0 /\ holdsKey'[w] = holdsKey[w] /\ holdsKey[w] <= sessionCount
    BY <1>1 DEF SessionsSound
  <1>4. opHandle' \in [Workers -> 0 .. MaxOpen] /\ holdsKey' \in [Workers -> 0 .. MaxOpen]
    BY <1>1, <1>2 DEF SessionsSound
  <1>5. session' <= sessionCount' /\ sessionCount' \in 0 .. MaxOpen /\ 0 <= sessionCount'
    BY <1>1 DEF SessionsSound
  <1>6. /\ \A w \in Workers : opHandle'[w] <= sessionCount' /\ holdsKey'[w] <= sessionCount'
        /\ oldHandles' \subseteq Workers /\ \A w \in oldHandles' : opHandle'[w] \notin {0, session'}
        /\ oldKeys' \subseteq Workers /\ \A w \in oldKeys' : holdsKey'[w] \notin {0, session'}
    BY <1>1, <1>3, <1>5
  <1> QED BY <1>1, <1>2, <1>4, <1>5, <1>6 DEF SessionsSound

(* A new session has a number above that of every handle and key. *)
LEMMA OpenKeeps ==
  ASSUME SessionsSound, NEW clears \in BOOLEAN, Open(clears)
  PROVE  SessionsSound'
  <1>1. sessionCount + 1 \in 1 .. MaxOpen
    BY MaxOpenAssumption DEF MaxOpenAssumption, SessionsSound, Open
  <1>2. /\ sessionCount' = sessionCount + 1 /\ session' = sessionCount + 1
        /\ sessionKeys' = (IF clears THEN {} ELSE sessionKeys) \cup {sessionCount + 1}
        /\ idleTooLong' = FALSE /\ permit' = TRUE
        /\ oldHandles' = {w \in Workers : opHandle[w] # 0} /\ oldKeys' = {w \in Workers : holdsKey[w] # 0}
        /\ UNCHANGED <<opHandle, holdsKey, staleUse, promptSecret, timeoutSet, supervisor>>
    BY DEF Open, grants, HaveHandle, HaveKey
  <1>3. sessionKeys' \subseteq 1 .. MaxOpen /\ session' \in sessionKeys'
    BY <1>1, <1>2 DEF SessionsSound
  <1>4. session' \in 0 .. MaxOpen /\ sessionCount' \in 0 .. MaxOpen
    BY <1>1, <1>2, MaxOpenAssumption DEF MaxOpenAssumption
  <1>5. \A w \in Workers : /\ opHandle[w] \in 0 .. MaxOpen /\ holdsKey[w] \in 0 .. MaxOpen
                           /\ opHandle[w] <= sessionCount /\ holdsKey[w] <= sessionCount
    BY DEF SessionsSound
  <1>6. /\ sessionCount \in Nat /\ session' <= sessionCount'
        /\ \A w \in Workers : opHandle'[w] = opHandle[w] /\ holdsKey'[w] = holdsKey[w]
    BY <1>2 DEF SessionsSound
  <1>7. \A w \in Workers : opHandle'[w] <= sessionCount' /\ holdsKey'[w] <= sessionCount'
    BY <1>2, <1>5, <1>6
  <1>8. oldHandles' \subseteq Workers /\ \A w \in oldHandles' : opHandle'[w] \notin {0, session'}
    BY <1>2, <1>5, <1>6
  <1>9. oldKeys' \subseteq Workers /\ \A w \in oldKeys' : holdsKey'[w] \notin {0, session'}
    BY <1>2, <1>5, <1>6
  <1> QED BY <1>2, <1>3, <1>4, <1>6, <1>7, <1>8, <1>9 DEF SessionsSound

(* A step that opens and ends no session and uses no handle and no key. *)
LEMMA SessionStays ==
  ASSUME SessionsSound, UNCHANGED <<session, sessionKeys, sessionCount, opHandle, holdsKey, oldHandles, oldKeys, staleUse>>,
         supervisor' \in {"read", "sleep", "wait"},
         promptSecret' \in BOOLEAN, timeoutSet' \in BOOLEAN, idleTooLong' \in BOOLEAN, permit' \in BOOLEAN
  PROVE  SessionsSound'
  BY DEF SessionsSound

LEMMA SupervisorKeeps ==
  ASSUME SessionsSound, Renew \/ IdleTimePasses \/ SetAutoLockTimeout \/ NextAutoLockDeadline \/ WaitForAutoLockChange
  PROVE  SessionsSound'
  <1>1. UNCHANGED <<session, sessionKeys, sessionCount, opHandle, holdsKey, oldHandles, oldKeys, staleUse, promptSecret>>
    BY DEF Renew, IdleTimePasses, SetAutoLockTimeout, NextAutoLockDeadline, WaitForAutoLockChange, grants, sessionHistory
  <1>2. supervisor' \in {"read", "sleep", "wait"} /\ timeoutSet' \in BOOLEAN /\ idleTooLong' \in BOOLEAN /\ permit' \in BOOLEAN
    BY DEF SessionsSound, Renew, IdleTimePasses, SetAutoLockTimeout, NextAutoLockDeadline, WaitForAutoLockChange
  <1> QED BY <1>1, <1>2, SessionStays DEF SessionsSound

(* Whose handle is old fails the check of its session, and so does whose   *)
(* key is old: neither is used.                                            *)
LEMMA OldRefused ==
  ASSUME SessionsSound, NEW w \in Workers
  PROVE  /\ OperationWrappingKey(w) => w \notin oldHandles
         /\ Publish(w) => w \notin oldKeys
  BY DEF SessionsSound, OperationWrappingKey, HandleCurrent, Publish, CurrentSession

LEMMA WorkerKeeps ==
  ASSUME SessionsSound, NEW w \in Workers,
         \/ CreateOperationHandle(w) \/ OperationWrappingKey(w) \/ CurrentCredential(w)
         \/ Publish(w) \/ PublishRefused(w) \/ RevokeOperationHandle(w)
  PROVE  SessionsSound'
  <1>0. /\ session \in 0 .. MaxOpen /\ opHandle[w] \in 0 .. MaxOpen /\ 0 \in 0 .. MaxOpen
        /\ opHandle \in [Workers -> 0 .. MaxOpen] /\ holdsKey \in [Workers -> 0 .. MaxOpen]
        /\ sessionCount \in 0 .. MaxOpen /\ session <= sessionCount /\ opHandle[w] <= sessionCount
        /\ staleUse = FALSE
    BY MaxOpenAssumption DEF SessionsSound, MaxOpenAssumption
  <1>1. UNCHANGED <<session, sessionKeys, sessionCount, promptSecret, timeoutSet, supervisor>>
        /\ idleTooLong' \in {FALSE, idleTooLong} /\ permit' \in {TRUE, permit}
    BY DEF CreateOperationHandle, OperationWrappingKey, CurrentCredential, Publish, PublishRefused, RevokeOperationHandle
  <1>2. /\ opHandle' \in [Workers -> 0 .. MaxOpen] /\ oldHandles' \subseteq oldHandles
        /\ \A v \in Workers : opHandle'[v] <= sessionCount
        /\ \A v \in oldHandles' : opHandle'[v] = opHandle[v]
    <2>1. CASE CreateOperationHandle(w)
      <3>1. opHandle' = [opHandle EXCEPT ![w] = session] /\ oldHandles' = oldHandles /\ w \notin oldHandles
        BY <2>1 DEF CreateOperationHandle, sessionHistory, SessionsSound
      <3> QED BY <3>1, <1>0 DEF SessionsSound
    <2>2. CASE RevokeOperationHandle(w)
      <3>1. opHandle' = [opHandle EXCEPT ![w] = 0] /\ oldHandles' = oldHandles \ {w}
        BY <2>2 DEF RevokeOperationHandle
      <3> QED BY <3>1, <1>0 DEF SessionsSound
    <2>3. CASE OperationWrappingKey(w) \/ CurrentCredential(w) \/ Publish(w) \/ PublishRefused(w)
      <3>1. opHandle' = opHandle /\ oldHandles' = oldHandles
        BY <2>3 DEF OperationWrappingKey, CurrentCredential, Publish, PublishRefused
      <3> QED BY <3>1, <1>0 DEF SessionsSound
    <2> QED BY <2>1, <2>2, <2>3
  <1>3. /\ holdsKey' \in [Workers -> 0 .. MaxOpen] /\ oldKeys' \subseteq oldKeys
        /\ \A v \in Workers : holdsKey'[v] <= sessionCount
        /\ \A v \in oldKeys' : holdsKey'[v] = holdsKey[v]
    <2>1. CASE CreateOperationHandle(w) \/ RevokeOperationHandle(w)
      <3>1. holdsKey' = holdsKey /\ oldKeys' = oldKeys
        BY <2>1 DEF CreateOperationHandle, RevokeOperationHandle, sessionHistory
      <3> QED BY <3>1, <1>0 DEF SessionsSound
    <2>2. CASE OperationWrappingKey(w) \/ CurrentCredential(w) \/ Publish(w) \/ PublishRefused(w)
      <3>1. PICK s \in {0, session, opHandle[w]} : holdsKey' = [holdsKey EXCEPT ![w] = s]
        BY <2>2 DEF OperationWrappingKey, CurrentCredential, Publish, PublishRefused
      <3>2. oldKeys' = oldKeys \ {w}
        BY <2>2 DEF OperationWrappingKey, CurrentCredential, Publish, PublishRefused
      <3> QED BY <3>1, <3>2, <1>0 DEF SessionsSound
    <2> QED BY <2>1, <2>2
  <1>4. staleUse' = FALSE
    BY <1>0, OldRefused DEF CreateOperationHandle, OperationWrappingKey, CurrentCredential, Publish, PublishRefused,
                            RevokeOperationHandle, sessionHistory
  <1>5. /\ oldHandles' \subseteq Workers /\ \A v \in oldHandles' : opHandle'[v] \notin {0, session'}
        /\ oldKeys' \subseteq Workers /\ \A v \in oldKeys' : holdsKey'[v] \notin {0, session'}
    BY <1>1, <1>2, <1>3 DEF SessionsSound
  <1> QED BY <1>1, <1>2, <1>3, <1>4, <1>5 DEF SessionsSound

LEMMA SessionsStep == SessionsSound /\ [SessionsNext]_sessionVars => SessionsSound'
  <1> SUFFICES ASSUME SessionsSound, [SessionsNext]_sessionVars PROVE SessionsSound'
    OBVIOUS
  <1>1. CASE Lock
    BY <1>1, RevokeKeeps DEF Lock, SessionsSound
  <1>2. CASE Open(TRUE) \/ Open(FALSE)
    BY <1>2, OpenKeeps
  <1>3. CASE Renew \/ IdleTimePasses \/ SetAutoLockTimeout \/ NextAutoLockDeadline \/ WaitForAutoLockChange
    BY <1>3, SupervisorKeeps
  <1>4. CASE RecordActivity
    BY <1>4, SupervisorKeeps, RevokeKeeps DEF RecordActivity, SessionsSound
  <1>5. CASE LockIfAutoLockDue
    BY <1>5, RevokeKeeps DEF LockIfAutoLockDue
  <1>6. ASSUME NEW w \in Workers,
               \/ CreateOperationHandle(w) \/ OperationWrappingKey(w) \/ CurrentCredential(w)
               \/ Publish(w) \/ PublishRefused(w) \/ RevokeOperationHandle(w)
        PROVE  SessionsSound'
    BY <1>6, WorkerKeeps
  <1>7. CASE StagePromptSecret \/ ConsumePromptSecret
    BY <1>7, SessionStays DEF StagePromptSecret, ConsumePromptSecret, SessionsSound, sessionHistory
  <1>8. CASE UNCHANGED sessionVars
    BY <1>8 DEF sessionVars, SessionsSound
  <1> QED BY <1>1, <1>2, <1>3, <1>4, <1>5, <1>6, <1>7, <1>8 DEF SessionsNext

LEMMA SessionsStart == SessionsInit => SessionsSound
  <1> SUFFICES ASSUME SessionsInit PROVE SessionsSound
    OBVIOUS
  <1>1. 0 \in 0 .. MaxOpen
    BY MaxOpenAssumption DEF MaxOpenAssumption
  <1>2. opHandle \in [Workers -> 0 .. MaxOpen] /\ holdsKey \in [Workers -> 0 .. MaxOpen]
    BY <1>1 DEF SessionsInit
  <1>3. \A w \in Workers : opHandle[w] <= sessionCount /\ holdsKey[w] <= sessionCount
    BY DEF SessionsInit
  <1>4. /\ session = 0 /\ sessionCount = 0 /\ sessionKeys = {} /\ oldHandles = {} /\ oldKeys = {} /\ staleUse = FALSE
        /\ promptSecret = FALSE /\ timeoutSet \in BOOLEAN /\ idleTooLong = FALSE /\ permit = FALSE /\ supervisor = "read"
    BY DEF SessionsInit
  <1>5. /\ session <= sessionCount /\ sessionKeys \subseteq 1 .. MaxOpen
        /\ oldHandles \subseteq Workers /\ \A w \in oldHandles : opHandle[w] \notin {0, session}
        /\ oldKeys \subseteq Workers /\ \A w \in oldKeys : holdsKey[w] \notin {0, session}
    BY <1>4
  <1>6. session \in 0 .. MaxOpen /\ sessionCount \in 0 .. MaxOpen /\ (session # 0 => session \in sessionKeys)
    BY <1>1, <1>4
  <1>7. /\ supervisor \in {"read", "sleep", "wait"}
        /\ promptSecret \in BOOLEAN /\ timeoutSet \in BOOLEAN /\ idleTooLong \in BOOLEAN /\ permit \in BOOLEAN
    BY <1>4
  <1> QED BY <1>2, <1>3, <1>4, <1>5, <1>6, <1>7, Zenon DEF SessionsSound

(***************************************************************************)
(* An open vault holds the key of its session, and locking it or opening   *)
(* it anew takes back every handle and key given out before: none of them  *)
(* yields a key or publishes afterwards, in this session or a later one,   *)
(* though workers keep the bytes of their keys and an opening over an open *)
(* vault keeps the earlier keys (validate_operation, with_current_session). *)
(***************************************************************************)
THEOREM SessionsInvariant == SessionsSpec => [](SessionsTypeOK /\ NothingOutlivesItsSession)
  <1>1. SessionsInit => SessionsSound
    BY SessionsStart
  <1>2. SessionsSound /\ [SessionsNext]_sessionVars => SessionsSound'
    BY SessionsStep
  <1>3. SessionsSound => SessionsTypeOK /\ NothingOutlivesItsSession
    BY DEF SessionsSound, SessionsTypeOK, NothingOutlivesItsSession, Locked
  <1> QED BY <1>1, <1>2, <1>3, PTL DEF SessionsSpec

(***************************************************************************)
(* All of the services at once: each part of ServicesInv from the          *)
(* specification it speaks of.                                             *)
(***************************************************************************)
THEOREM ServicesInvariant == Spec /\ PacerSpec /\ SessionsSpec /\ ServerSpec => []ServicesInv
  <1>1. PacerSpec => []PaceSound
    BY PaceStarts, PaceStep, PTL DEF PacerSpec
  <1>2. PaceSound => PacerTypeOK
    BY DEF PaceSound
  <1>3. BandwidthInv /\ ChargesFit /\ PacerTypeOK /\ SessionsTypeOK /\ NothingOutlivesItsSession
        /\ ServerTypeOK /\ OnlyCurrentServed => ServicesInv
    BY DEF ServicesInv
  <1> QED BY <1>1, <1>2, <1>3, BandwidthInvariant, ChargesAlwaysFit, SessionsInvariant, ServerInvariant, PTL
==============================================================================
