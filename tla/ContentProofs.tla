---------------------------- MODULE ContentProofs ----------------------------
(***************************************************************************)
(* Proofs about what converts, serves, fetches and sends content, for any value   *)
(* of the constants.  The components share no state.                       *)
(***************************************************************************)
EXTENDS ContentPromises, FiniteSetTheorems, SequenceTheorems, WellFoundedInduction, TLAPS

-----------------------------------------------------------------------------
(***************************************************************************)
(* Conversions.  A live job is the one its output's entry names, so that   *)
(* no two live jobs share an output; and a job that still works is live.   *)
(***************************************************************************)
Places == {"none", "new", "prepare", "lock", "cache", "source", "ffmpeg", "evict", "drop", "done"}
Phases == {"none", "pending", "caching", "transcoding", "ready", "error", "cancelled"}
TJob == [v : Variants, at : Places, live : BOOLEAN, cancelled : BOOLEAN, armed : BOOLEAN,
         signal : BOOLEAN, phase : Phases, guard : Nat]

Live(j) == job[j].live = TRUE

LeaseSound(j) ==
  /\ Writing(j) => Live(j)
  /\ Live(j) => tjobs[job[j].v] = j
  /\ job[j].at # "none" => j <= lastJob

LeaseInv ==
  /\ TranscodeTypeOK /\ job \in [TranscodeJobs -> TJob]
  /\ \A j \in TranscodeJobs : LeaseSound(j)

(* A lease is what HasLiveWriter asks for. *)
LEMMA LiveIsLeased ==
  ASSUME LeaseInv, NEW j \in TranscodeJobs
  PROVE  /\ Live(j) <=> HasLiveWriter(j)
         /\ job[j] \in TJob /\ job[j].v \in Variants /\ j \in Nat /\ j # 0 /\ lastJob \in Nat
         /\ LeaseSound(j)
  <1>1. /\ job[j] \in TJob /\ LeaseSound(j) /\ MaxJobs \in Nat
    BY TranscodeAssumption DEF LeaseInv, TranscodeAssumption
  <1>2. j \in Nat /\ j # 0 /\ lastJob \in Nat
    BY <1>1 DEF LeaseInv, TranscodeTypeOK, TranscodeJobs
  <1>3. job[j].live \in BOOLEAN /\ job[j].v \in Variants
    BY <1>1 DEF TJob
  <1> QED BY <1>1, <1>2, <1>3 DEF Live, HasLiveWriter

(* Two live jobs write two outputs. *)
LEMMA LiveApart ==
  ASSUME LeaseInv, NEW i \in TranscodeJobs, NEW j \in TranscodeJobs, Live(i), Live(j), i # j
  PROVE  job[i].v # job[j].v
  BY DEF LeaseInv, LeaseSound

(* A job that moves on keeps its output and its session, and works only    *)
(* while it is live.                                                       *)
Moved(j, to) ==
  /\ to \in TJob /\ to.v = job[j].v /\ to.guard = job[j].guard
  /\ to.live = TRUE => job[j].live = TRUE
  /\ to.at \in {"new", "prepare", "lock", "cache", "source", "ffmpeg"} => to.live = TRUE
  /\ to.at # "none" => job[j].at # "none"

MovedTo(j, to, at) == Moved(j, to) /\ to.at = at

LEMMA MovedKeeps ==
  ASSUME LeaseInv, NEW j \in TranscodeJobs, NEW to, Moved(j, to),
         job' = [job EXCEPT ![j] = to], UNCHANGED <<tjobs, lastJob, epoch>>
  PROVE  /\ job' \in [TranscodeJobs -> TJob] /\ \A i \in TranscodeJobs : LeaseSound(i)'
         /\ \A i \in TranscodeJobs : job'[i].v \in Variants /\ job'[i].guard <= epoch'
         /\ job'[j] = to /\ \A i \in TranscodeJobs : i # j => job'[i] = job[i]
  <1>1. /\ job \in [TranscodeJobs -> TJob] /\ \A i \in TranscodeJobs : LeaseSound(i)
        /\ \A i \in TranscodeJobs : job[i].v \in Variants /\ job[i].guard <= epoch
    BY DEF LeaseInv, TranscodeTypeOK
  <1>2. job'[j] = to /\ \A i \in TranscodeJobs : i # j => job'[i] = job[i]
    BY <1>1
  <1>3. job' \in [TranscodeJobs -> TJob]
    BY <1>1 DEF Moved
  <1>4. LeaseSound(j)'
    BY <1>1, <1>2 DEF Moved, LeaseSound, Live, Writing
  <1>5. \A i \in TranscodeJobs : i # j => LeaseSound(i)'
    BY <1>1, <1>2 DEF LeaseSound, Live, Writing
  <1>6. \A i \in TranscodeJobs : job'[i].v \in Variants /\ job'[i].guard <= epoch'
    BY <1>1, <1>2 DEF Moved
  <1> QED BY <1>2, <1>3, <1>4, <1>5, <1>6

(* The records of a job after one step of it. *)
LEMMA JobMoves ==
  ASSUME LeaseInv, NEW j \in TranscodeJobs, NEW at \in Places \ {"none"}, NEW reached \in Phases,
         NEW armed \in BOOLEAN, job[j].at # "none"
  PROVE  /\ at \notin {"done"} /\ Live(j) =>
              /\ MovedTo(j, [job[j] EXCEPT !.at = at], at)
              /\ MovedTo(j, [job[j] EXCEPT !.at = at, !.phase = reached], at)
              /\ MovedTo(j, [job[j] EXCEPT !.at = at, !.armed = armed], at)
         /\ at \in {"done", "evict", "drop"} =>
              /\ MovedTo(j, [job[j] EXCEPT !.at = at], at)
              /\ MovedTo(j, [job[j] EXCEPT !.at = at, !.phase = reached], at)
              /\ MovedTo(j, [job[j] EXCEPT !.at = at, !.live = FALSE], at)
              /\ MovedTo(j, [job[j] EXCEPT !.at = at, !.live = FALSE, !.phase = reached], at)
  <1>1. PICK r : r = job[j]
    OBVIOUS
  <1>2. r \in TJob
    BY <1>1, LiveIsLeased
  <1> DEFINE a == [r EXCEPT !.at = at]
             b == [r EXCEPT !.at = at, !.phase = reached]
             c == [r EXCEPT !.at = at, !.armed = armed]
             d == [r EXCEPT !.at = at, !.live = FALSE]
             e == [r EXCEPT !.at = at, !.live = FALSE, !.phase = reached]
  <1>3. /\ a \in TJob /\ b \in TJob /\ c \in TJob /\ d \in TJob /\ e \in TJob
    BY <1>2 DEF TJob
  <1>4. /\ a.v = r.v /\ b.v = r.v /\ c.v = r.v /\ d.v = r.v /\ e.v = r.v
        /\ a.guard = r.guard /\ b.guard = r.guard /\ c.guard = r.guard /\ d.guard = r.guard /\ e.guard = r.guard
        /\ a.at = at /\ b.at = at /\ c.at = at /\ d.at = at /\ e.at = at
    BY <1>2 DEF TJob
  <1>5. a.live = r.live /\ b.live = r.live /\ c.live = r.live /\ d.live = FALSE /\ e.live = FALSE
    BY <1>2, Zenon DEF TJob
  <1> HIDE DEF a, b, c, d, e
  <1>6. /\ at \notin {"done"} /\ Live(j) => MovedTo(j, a, at) /\ MovedTo(j, b, at) /\ MovedTo(j, c, at)
        /\ at \in {"done", "evict", "drop"} =>
              MovedTo(j, a, at) /\ MovedTo(j, b, at) /\ MovedTo(j, d, at) /\ MovedTo(j, e, at)
    BY <1>1, <1>3, <1>4, <1>5 DEF MovedTo, Moved, Live
  <1> QED BY <1>1, <1>6 DEF a, b, c, d, e

(* One step of a worker moves its own job. *)
LEMMA WorkerMoves ==
  ASSUME LeaseInv, NEW j \in TranscodeJobs, WorkerStep(j)
  PROVE  /\ \E to : Moved(j, to) /\ to.at # job[j].at /\ job' = [job EXCEPT ![j] = to]
         /\ UNCHANGED <<tjobs, lastJob, epoch, crashes, cleaning>>
         /\ job[j].at # "none"
  <1>1. /\ job[j].at # "none" /\ UNCHANGED <<tjobs, lastJob, epoch, crashes, cleaning>>
        /\ job[j].at \in Places
    BY LiveIsLeased DEF WorkerStep, CheckOutput, PrepareFails, PrepareCancelled, SpawnWorker, LockSource,
       LockCancelled, CacheOriginal, CacheFails, StartFfmpeg, StartRefused, FfmpegDone, FfmpegFails,
       PublishOutput, RemuxFails, EvictLru, DropLease, TJob
  <1> DEFINE Goal == \E to : Moved(j, to) /\ to.at # job[j].at /\ job' = [job EXCEPT ![j] = to]
  <1>0. \A to, at : (MovedTo(j, to, at) /\ at # job[j].at /\ job' = [job EXCEPT ![j] = to]) => Goal
    BY DEF MovedTo
  <1> HIDE DEF Goal
  <1>2. ASSUME NEW reached \in Phases, Leaves(j, reached), job[j].at \notin {"drop", "evict"} PROVE Goal
    <2>1. PICK at \in {"drop", "evict"} : job' = [job EXCEPT ![j] = [job[j] EXCEPT !.at = at, !.phase = reached]]
      BY <1>2 DEF Leaves
    <2>2. MovedTo(j, [job[j] EXCEPT !.at = at, !.phase = reached], at)
      BY <1>1, JobMoves DEF Places
    <2> QED BY <1>0, <1>2, <2>1, <2>2
  <1>3. ASSUME NEW reached \in Phases, Ends(j, reached), job[j].at # "done" PROVE Goal
    <2>1. job' = [job EXCEPT ![j] = [job[j] EXCEPT !.at = "done", !.live = FALSE, !.phase = reached]]
      BY <1>3 DEF Ends
    <2>2. MovedTo(j, [job[j] EXCEPT !.at = "done", !.live = FALSE, !.phase = reached], "done")
      BY <1>1, JobMoves DEF Places
    <2> QED BY <1>0, <1>3, <2>1, <2>2
  <1>4. job[j].phase \in Phases /\ Failed(j) \in Phases
    <2>1. job[j].phase \in Phases
      BY LiveIsLeased DEF TJob
    <2>2. Failed(j) \in {"cancelled", "error"}
      BY DEF Failed
    <2> QED BY <2>1, <2>2 DEF Phases
  <1>5. ASSUME CheckOutput(j)
         PROVE  Goal
    <2>1. CASE out[job[j].v] = "whole"
      BY <1>3, <1>4, <1>5, <2>1 DEF CheckOutput, Phases
    <2>2. CASE out[job[j].v] # "whole"
      <3>1. PICK armed : armed = ~Remux(j)
        OBVIOUS
      <3>2. armed \in BOOLEAN /\ job' = [job EXCEPT ![j] = [job[j] EXCEPT !.at = "prepare", !.armed = armed]]
        BY <1>5, <2>2, <3>1 DEF CheckOutput
      <3>3. Live(j)
        BY <1>5, LiveIsLeased DEF CheckOutput, LeaseSound, Writing
      <3>4. MovedTo(j, [job[j] EXCEPT !.at = "prepare", !.armed = armed], "prepare")
        BY <1>1, <1>4, <3>2, <3>3, JobMoves DEF Places
      <3>5. job[j].at = "new"
        BY <1>5 DEF CheckOutput
      <3> QED BY <1>0, <3>2, <3>4, <3>5
    <2> QED BY <2>1, <2>2
  <1>6. ASSUME PrepareFails(j) \/ PrepareCancelled(j)
         PROVE  Goal
    <2>1. PICK reached \in {"error", "cancelled", job[j].phase} : Ends(j, reached)
      BY <1>6 DEF PrepareFails, PrepareCancelled
    <2>2. reached \in Phases
      BY <1>4 DEF Phases
    <2>3. job[j].at # "done"
      BY <1>6 DEF PrepareFails, PrepareCancelled
    <2> QED BY <1>3, <2>1, <2>2, <2>3
  <1>7. ASSUME SpawnWorker(j)
         PROVE  Goal
    <2>1. PICK armed : armed = (job[j].armed \/ Remux(j))
      OBVIOUS
    <2>2. armed \in BOOLEAN /\ job' = [job EXCEPT ![j] = [job[j] EXCEPT !.at = "lock", !.armed = armed]]
      BY <1>7, <2>1 DEF SpawnWorker
    <2>3. Live(j)
      BY <1>7, LiveIsLeased DEF SpawnWorker, LeaseSound, Writing
    <2> QED BY <1>0, <1>1, <1>4, <1>7, <2>2, <2>3, JobMoves DEF Places, SpawnWorker
  <1>8. ASSUME LockSource(j) \/ CacheOriginal(j) \/ StartFfmpeg(j)
         PROVE  Goal
    <2>1. Live(j) /\ job[j].phase \in Phases
      BY <1>4, <1>8, LiveIsLeased DEF LockSource, CacheOriginal, StartFfmpeg, LeaseSound, Writing
    <2>2. CASE LockSource(j)
      <3>1. PICK at \in {"source", "cache"}, reached \in {job[j].phase, "caching"} :
               job' = [job EXCEPT ![j] = [job[j] EXCEPT !.at = at, !.phase = reached]]
        BY <2>2 DEF LockSource
      <3>2. MovedTo(j, [job[j] EXCEPT !.at = at, !.phase = reached], at)
        BY <1>1, <2>1, <3>1, JobMoves DEF Places, Phases
      <3>3. job[j].at = "lock"
        BY <2>2 DEF LockSource
      <3> QED BY <1>0, <3>1, <3>2, <3>3
    <2>3. CASE CacheOriginal(j)
      <3>1. job' = [job EXCEPT ![j] = [job[j] EXCEPT !.at = "source"]] /\ job[j].at = "cache"
        BY <2>3 DEF CacheOriginal
      <3>2. MovedTo(j, [job[j] EXCEPT !.at = "source"], "source")
        BY <1>1, <1>4, <2>1, JobMoves DEF Places
      <3> QED BY <1>0, <3>1, <3>2
    <2>4. CASE StartFfmpeg(j)
      <3>1. /\ job' = [job EXCEPT ![j] = [job[j] EXCEPT !.at = "ffmpeg", !.phase = "transcoding"]]
            /\ job[j].at = "source"
        BY <2>4 DEF StartFfmpeg
      <3>2. MovedTo(j, [job[j] EXCEPT !.at = "ffmpeg", !.phase = "transcoding"], "ffmpeg")
        BY <1>1, <2>1, JobMoves DEF Places, Phases
      <3> QED BY <1>0, <3>1, <3>2
    <2> QED BY <1>8, <2>2, <2>3, <2>4
  <1>9. ASSUME LockCancelled(j) \/ CacheFails(j) \/ StartRefused(j) \/ FfmpegDone(j) \/ FfmpegFails(j)
               \/ PublishOutput(j) \/ RemuxFails(j)
         PROVE  Goal
    <2>1. PICK reached \in {"error", "cancelled", "ready", Failed(j)} : Leaves(j, reached)
      BY <1>9 DEF LockCancelled, CacheFails, StartRefused, FfmpegDone, FfmpegFails, PublishOutput, RemuxFails
    <2>2. reached \in Phases
      BY <1>4 DEF Phases
    <2>3. job[j].at \notin {"drop", "evict"}
      BY <1>9 DEF LockCancelled, CacheFails, StartRefused, FfmpegDone, FfmpegFails, PublishOutput, RemuxFails
    <2> QED BY <1>2, <2>1, <2>2, <2>3
  <1>10. ASSUME EvictLru(j) \/ DropLease(j)
         PROVE  Goal
    <2>1. CASE EvictLru(j)
      <3>1. PICK at \in {"drop", "done"} : job' = [job EXCEPT ![j] = [job[j] EXCEPT !.at = at]]
        BY <2>1 DEF EvictLru
      <3>2. MovedTo(j, [job[j] EXCEPT !.at = at], at)
        BY <1>1, <1>4, JobMoves DEF Places
      <3>3. job[j].at = "evict"
        BY <2>1 DEF EvictLru
      <3> QED BY <1>0, <3>1, <3>2, <3>3
    <2>2. CASE DropLease(j)
      <3>1. PICK at \in {"evict", "done"} :
               job' = [job EXCEPT ![j] = [job[j] EXCEPT !.live = FALSE, !.at = at]]
        BY <2>2 DEF DropLease
      <3>2. [job[j] EXCEPT !.live = FALSE, !.at = at] = [job[j] EXCEPT !.at = at, !.live = FALSE]
        BY LiveIsLeased DEF TJob
      <3>3. MovedTo(j, [job[j] EXCEPT !.live = FALSE, !.at = at], at)
        BY <1>1, <1>4, <3>2, JobMoves DEF Places
      <3>4. job[j].at = "drop"
        BY <2>2 DEF DropLease
      <3> QED BY <1>0, <3>1, <3>3, <3>4
    <2> QED BY <1>10, <2>1, <2>2
  <1> QED BY <1>1, <1>5, <1>6, <1>7, <1>8, <1>9, <1>10 DEF WorkerStep, Goal

(* What a worker may do to the files: its own output, the original while   *)
(* nobody holds it, and in an eviction what no lease protects.             *)
LEMMA WorkerFiles ==
  ASSUME LeaseInv, NEW j \in TranscodeJobs, WorkerStep(j)
  PROVE  /\ out' \in [Variants -> OutStates] /\ original' \in BOOLEAN /\ aged' \in BOOLEAN
         /\ source' \in 0..lastJob
         /\ \A i \in TranscodeJobs : i # j /\ Live(i) =>
               /\ original => original'
               /\ out'[job[i].v] = out[job[i].v]
  <1>1. /\ TranscodeTypeOK /\ job[j] \in TJob /\ LeaseSound(j) /\ j \in Nat /\ lastJob \in Nat /\ j # 0
        /\ \A i \in TranscodeJobs : job[i].v \in Variants
    BY LiveIsLeased DEF LeaseInv
  <1>2. job[j].at # "none" => j \in 0..lastJob
    BY <1>1 DEF LeaseSound
  <1>3. source' \in 0..lastJob
    <2>1. source' \in {source, 0, j}
      BY DEF WorkerStep, CheckOutput, PrepareFails, PrepareCancelled, SpawnWorker, LockSource,
       LockCancelled, CacheOriginal, CacheFails, StartFfmpeg, StartRefused, FfmpegDone, FfmpegFails,
       PublishOutput, RemuxFails, EvictLru, DropLease
    <2>2. {source, 0, j} \subseteq 0..lastJob
      BY <1>1, <1>2, WorkerMoves DEF TranscodeTypeOK
    <2> QED BY <2>1, <2>2
  <1>4. CASE EvictLru(j)
    <2>1. /\ out' \in [Variants -> OutStates] /\ aged' = aged
          /\ \A v \in Variants : OutputProtected(v) => out'[v] = out[v]
          /\ original' \in {original, FALSE} /\ (OriginalProtected => original' = original)
      BY <1>4 DEF EvictLru
    <2>2. ASSUME NEW i \in TranscodeJobs, Live(i)
          PROVE  OriginalProtected /\ OutputProtected(job[i].v)
      BY <2>2, LiveIsLeased DEF OriginalProtected, OutputProtected, LeaseSound
    <2>3. aged' \in BOOLEAN /\ original \in BOOLEAN
      BY <1>1, <2>1 DEF TranscodeTypeOK
    <2>4. original' \in BOOLEAN
      BY <2>1, <2>3
    <2>5. ASSUME NEW i \in TranscodeJobs, Live(i)
          PROVE  original' = original /\ out'[job[i].v] = out[job[i].v]
      BY <1>1, <2>1, <2>2, <2>5
    <2> QED BY <1>3, <2>1, <2>3, <2>4, <2>5
  <1>5. CASE ~EvictLru(j)
    <2>1. /\ out' = out \/ (Writing(j) /\ \E o \in OutStates : out' = [out EXCEPT ![job[j].v] = o])
          /\ original' = original \/ original' = TRUE
      BY <1>1, <1>5 DEF TranscodeTypeOK, WorkerStep, CheckOutput, PrepareFails, PrepareCancelled, SpawnWorker, LockSource,
       LockCancelled, CacheOriginal, CacheFails, StartFfmpeg, StartRefused, FfmpegDone, FfmpegFails,
       PublishOutput, RemuxFails, DropLease, Writing, OutStates
    <2>2. aged' \in BOOLEAN
      BY <1>1, <1>5 DEF TranscodeTypeOK, WorkerStep, CheckOutput, PrepareFails, PrepareCancelled, SpawnWorker, LockSource,
       LockCancelled, CacheOriginal, CacheFails, StartFfmpeg, StartRefused, FfmpegDone, FfmpegFails,
       PublishOutput, RemuxFails, DropLease
    <2>3. out' \in [Variants -> OutStates] /\ original' \in BOOLEAN
      BY <1>1, <2>1 DEF TranscodeTypeOK
    <2>4. ASSUME NEW i \in TranscodeJobs, i # j, Live(i)
          PROVE  out'[job[i].v] = out[job[i].v] /\ (original => original')
      <3>1. Writing(j) => job[i].v # job[j].v
        BY <1>1, <2>4, LiveApart DEF LeaseSound
      <3> QED BY <1>1, <2>1, <3>1 DEF TranscodeTypeOK
    <2> QED BY <1>3, <2>2, <2>3, <2>4
  <1> QED BY <1>4, <1>5

(* Every step keeps the leases, and takes nothing from a live job that     *)
(* stands still.                                                           *)
KeepsFiles ==
  \A j \in TranscodeJobs : (HasLiveWriter(j) /\ job'[j] = job[j] /\ cleaning' = cleaning) =>
     /\ job[j].at \in {"source", "ffmpeg"} => (original => original')
     /\ (job[j].at = "ffmpeg" \/ (job[j].at = "drop" /\ job[j].phase = "ready"))
          => out'[job[j].v] = out[job[j].v]

(* What is not a job yet holds no lease. *)
LEMMA NotAJob ==
  /\ NoTranscode \in TJob /\ NoTranscode.at = "none" /\ NoTranscode.guard = 0
  /\ NoTranscode.v \in Variants /\ NoTranscode.live = FALSE
  <1>1. PICK v0 : v0 = CHOOSE v \in Variants : TRUE
    OBVIOUS
  <1>2. v0 \in Variants
    BY <1>1, TranscodeAssumption DEF TranscodeAssumption
  <1>3. NoTranscode = [v |-> v0, at |-> "none", live |-> FALSE, cancelled |-> FALSE, armed |-> FALSE,
                       signal |-> FALSE, phase |-> "none", guard |-> 0]
    BY <1>1, Zenon DEF NoTranscode
  <1>4. NoTranscode \in TJob /\ NoTranscode.at = "none" /\ NoTranscode.guard = 0 /\ NoTranscode.v = v0
    BY <1>2, <1>3 DEF TJob, Places, Phases
  <1>5. NoTranscode.live = FALSE
    BY <1>3, Zenon
  <1> QED BY <1>2, <1>4, <1>5

(* A new job takes the entry of its output from a job that is not live. *)
LEMMA CreateKeeps ==
  ASSUME LeaseInv, NEW v \in Variants, GetOrCreateJob(v)
  PROVE  LeaseInv'
  <1> DEFINE k == lastJob + 1
             new == [NoTranscode EXCEPT !.v = v, !.at = "new", !.live = TRUE, !.phase = "pending", !.guard = epoch]
  <1>1. /\ lastJob \in Nat /\ MaxJobs \in Nat /\ lastJob < MaxJobs /\ k \in TranscodeJobs /\ k \in Nat
        /\ epoch \in Nat
    BY TranscodeAssumption DEF TranscodeAssumption, LeaseInv, TranscodeTypeOK, GetOrCreateJob, TranscodeJobs
  <1>2. /\ lastJob' = k /\ tjobs' = [tjobs EXCEPT ![v] = k] /\ job' = [job EXCEPT ![k] = new]
        /\ ~HasLiveWriter(tjobs[v])
        /\ UNCHANGED <<source, original, out, aged, cleaning, epoch, crashes>>
    BY DEF GetOrCreateJob
  <1>3. PICK no : no = NoTranscode /\ no \in TJob
    BY NotAJob
  <1> DEFINE some == [no EXCEPT !.v = v, !.at = "new"]
             more == [some EXCEPT !.phase = "pending", !.guard = epoch]
             full == [more EXCEPT !.live = TRUE]
  <1>4. /\ some \in TJob /\ some.v = v /\ some.at = "new"
        /\ new = full
    BY <1>1, <1>3 DEF TJob, Places
  <1> HIDE DEF some
  <1>5. more \in TJob /\ more.v = v /\ more.at = "new" /\ more.guard = epoch
    BY <1>1, <1>4 DEF TJob, Phases
  <1> HIDE DEF more
  <1>6. full \in TJob /\ full.v = v /\ full.at = "new" /\ full.guard = epoch
    BY <1>5 DEF TJob
  <1>60. full.live = TRUE
    BY <1>5, Zenon DEF TJob
  <1> HIDE DEF k, new, full
  <1>7. /\ job \in [TranscodeJobs -> TJob] /\ tjobs \in [Variants -> 0..lastJob]
        /\ \A i \in TranscodeJobs : LeaseSound(i) /\ job[i].v \in Variants /\ job[i].guard <= epoch
        /\ k = lastJob + 1
    BY DEF LeaseInv, TranscodeTypeOK, k
  <1>8. job' \in [TranscodeJobs -> TJob]
    BY <1>1, <1>2, <1>4, <1>6, <1>7
  <1>9. TranscodeTypeOK'
    <2>1. tjobs' \in [Variants -> 0..lastJob'] /\ lastJob' \in 0..MaxJobs /\ source' \in 0..lastJob'
      BY <1>1, <1>2, <1>7 DEF LeaseInv, TranscodeTypeOK
    <2>2. \A i \in TranscodeJobs : job'[i].v \in Variants /\ job'[i].guard <= epoch'
      BY <1>1, <1>2, <1>4, <1>6, <1>7
    <2> QED BY <1>2, <2>1, <2>2 DEF LeaseInv, TranscodeTypeOK
  <1>10. ASSUME NEW i \in TranscodeJobs PROVE LeaseSound(i)'
    <2>1. CASE i = k
      <3>1. job'[i] = new /\ tjobs'[v] = k
        BY <1>1, <1>2, <1>7, <2>1
      <3> QED BY <1>1, <1>2, <1>4, <1>6, <1>60, <2>1, <3>1 DEF LeaseSound, Live, Writing
    <2>2. CASE i # k
      <3>1. job'[i] = job[i]
        BY <1>2, <1>7, <2>2
      <3>2. Live(i) => job[i].v # v
        <4>1. Live(i) => HasLiveWriter(i) /\ tjobs[job[i].v] = i
          BY LiveIsLeased DEF LeaseSound
        <4> QED BY <1>2, <4>1
      <3>3. Live(i) => tjobs'[job[i].v] = tjobs[job[i].v]
        BY <1>2, <1>7, <3>2
      <3>4. job[i].at # "none" => i <= lastJob'
        BY <1>1, <1>2, <1>7 DEF LeaseSound, TranscodeJobs
      <3> QED BY <1>7, <3>1, <3>3, <3>4 DEF LeaseSound, Live, Writing
    <2> QED BY <2>1, <2>2
  <1> QED BY <1>8, <1>9, <1>10 DEF LeaseInv

LEMMA LeaseStep ==
  ASSUME LeaseInv, [TranscodeNext]_transcodeVars
  PROVE  LeaseInv' /\ KeepsFiles
  <1>0. /\ TranscodeTypeOK /\ job \in [TranscodeJobs -> TJob]
        /\ \A j \in TranscodeJobs : /\ LeaseSound(j) /\ j # 0 /\ job[j].v \in Variants
                                    /\ Live(j) <=> HasLiveWriter(j)
    BY LiveIsLeased DEF LeaseInv
  <1>1. ASSUME NEW j \in TranscodeJobs, WorkerStep(j)
        PROVE  LeaseInv' /\ KeepsFiles
    <2>1. PICK to : Moved(j, to) /\ to.at # job[j].at /\ job' = [job EXCEPT ![j] = to]
      BY <1>1, WorkerMoves
    <2>2. UNCHANGED <<tjobs, lastJob, epoch, crashes, cleaning>>
      BY <1>1, WorkerMoves
    <2>3. /\ job' \in [TranscodeJobs -> TJob] /\ \A i \in TranscodeJobs : LeaseSound(i)'
          /\ \A i \in TranscodeJobs : job'[i].v \in Variants /\ job'[i].guard <= epoch'
      BY <2>1, <2>2, MovedKeeps
    <2>4. /\ out' \in [Variants -> OutStates] /\ original' \in BOOLEAN /\ aged' \in BOOLEAN
          /\ source' \in 0..lastJob
      BY <1>1, WorkerFiles
    <2>5. TranscodeTypeOK'
      BY <1>0, <2>2, <2>3, <2>4 DEF TranscodeTypeOK
    <2>6. ASSUME NEW i \in TranscodeJobs, Live(i), i # j
          PROVE  (original => original') /\ out'[job[i].v] = out[job[i].v]
      BY <1>1, <2>6, WorkerFiles
    <2>7. job'[j] = job[j] => FALSE
      BY <1>0, <2>1
    <2>8. KeepsFiles
      BY <1>0, <2>6, <2>7 DEF KeepsFiles
    <2> QED BY <2>3, <2>5, <2>8 DEF LeaseInv
  <1>2. ASSUME NEW v \in Variants, GetOrCreateJob(v)
        PROVE  LeaseInv' /\ KeepsFiles
    <2>1. out' = out /\ original' = original
      BY <1>2 DEF GetOrCreateJob
    <2> QED BY <1>2, <2>1, CreateKeeps DEF KeepsFiles
  <1>3. ASSUME NEW v \in Variants, CancelTranscode(v)
        PROVE  LeaseInv' /\ KeepsFiles
    <2>1. PICK j, signal : j = tjobs[v] /\ signal = (job[j].signal \/ job[j].armed)
      OBVIOUS
    <2>2. /\ j \in TranscodeJobs /\ signal \in BOOLEAN /\ job[j] \in TJob
      <3>1. j \in 0..lastJob /\ j # 0 /\ lastJob \in 0..MaxJobs
        BY <1>0, <1>3, <2>1 DEF CancelTranscode, TranscodeTypeOK
      <3> QED BY <1>0, <2>1, <3>1, TranscodeAssumption DEF TranscodeJobs, TranscodeAssumption
    <2>3. PICK r : r = job[j]
      OBVIOUS
    <2> DEFINE once == [r EXCEPT !.cancelled = TRUE, !.signal = signal]
               to == [once EXCEPT !.armed = FALSE, !.phase = "cancelled"]
    <2>4. /\ job' = [job EXCEPT ![j] = to]
          /\ UNCHANGED <<tjobs, lastJob, source, original, out, aged, cleaning, epoch, crashes>>
      <3>0. job' = [job EXCEPT ![j] = [r EXCEPT !.cancelled = TRUE, !.signal = r.signal \/ r.armed,
                                              !.armed = FALSE, !.phase = "cancelled"]]
        <4>1. job' = [job EXCEPT ![tjobs[v]] =
                [job[tjobs[v]] EXCEPT !.cancelled = TRUE, !.signal = job[tjobs[v]].signal \/ job[tjobs[v]].armed,
                                      !.armed = FALSE, !.phase = "cancelled"]]
          BY <1>3 DEF CancelTranscode
        <4> QED BY <4>1, <2>1, <2>3, Zenon
      <3>1. to = [r EXCEPT !.cancelled = TRUE, !.signal = r.signal \/ r.armed, !.armed = FALSE, !.phase = "cancelled"]
        BY <2>1, <2>2, <2>3 DEF TJob
      <3>3. job' = [job EXCEPT ![j] = to]
        BY <3>0, <3>1, Zenon
      <3> QED BY <1>3, <3>3 DEF CancelTranscode
    <2>5. once \in TJob /\ once.v = r.v /\ once.guard = r.guard /\ once.at = r.at
      BY <2>2, <2>3 DEF TJob
    <2>6. once.live = r.live
      BY <2>2, <2>3, Zenon DEF TJob
    <2> HIDE DEF once
    <2>7. to \in TJob /\ to.v = once.v /\ to.guard = once.guard /\ to.at = once.at
      BY <2>5 DEF TJob, Phases
    <2>8. to.live = once.live
      BY <2>5, Zenon DEF TJob
    <2> HIDE DEF to
    <2>9. Moved(j, to)
      BY <1>0, <2>2, <2>3, <2>5, <2>6, <2>7, <2>8 DEF Moved, LeaseSound, Live, Writing
    <2>10. /\ job' \in [TranscodeJobs -> TJob] /\ \A i \in TranscodeJobs : LeaseSound(i)'
           /\ \A i \in TranscodeJobs : job'[i].v \in Variants /\ job'[i].guard <= epoch'
      BY <2>2, <2>4, <2>9, MovedKeeps
    <2> QED BY <1>0, <2>4, <2>10 DEF LeaseInv, TranscodeTypeOK, KeepsFiles
  <1>4. ASSUME ClearFile \/ \E v \in Variants : ClearVariant(v)
        PROVE  LeaseInv' /\ KeepsFiles
    <2>1. /\ \A v \in Variants : ~HasLiveWriter(tjobs[v])
          /\ UNCHANGED <<tjobs, job, lastJob, source, cleaning, epoch, crashes>>
          /\ out' \in [Variants -> OutStates] /\ aged' \in BOOLEAN
      BY <1>0, <1>4 DEF ClearFile, ClearVariant, TranscodeTypeOK, OutStates
    <2>2. original' \in BOOLEAN
      BY <1>0, <1>4 DEF ClearFile, ClearVariant, TranscodeTypeOK
    <2>3. \A j \in TranscodeJobs : ~HasLiveWriter(j)
      BY <1>0, <2>1 DEF LeaseSound
    <2>4. TranscodeTypeOK'
      BY <1>0, <2>1, <2>2 DEF TranscodeTypeOK
    <2>5. \A j \in TranscodeJobs : LeaseSound(j)'
      BY <1>0, <2>1 DEF LeaseSound, Live, Writing
    <2> QED BY <1>0, <2>1, <2>3, <2>4, <2>5 DEF LeaseInv, KeepsFiles
  <1>5. ASSUME CleanupLooks \/ CleanupRemoves \/ AccountChanges \/ UNCHANGED transcodeVars
        PROVE  LeaseInv' /\ KeepsFiles
    <2>1. /\ UNCHANGED <<tjobs, job, lastJob, source, original, crashes>>
          /\ \A j \in TranscodeJobs : LeaseSound(j)'
      BY <1>0, <1>5 DEF CleanupLooks, CleanupRemoves, AccountChanges, transcodeVars, LeaseSound, Live, Writing
    <2>2. /\ cleaning' \in {"look", "remove", "done"} /\ out' \in [Variants -> OutStates]
          /\ cleaning' = cleaning => out' = out
      BY <1>0, <1>5 DEF CleanupLooks, CleanupRemoves, AccountChanges, transcodeVars, TranscodeTypeOK, OutStates
    <2>3. aged' \in BOOLEAN
      BY <1>0, <1>5 DEF CleanupLooks, CleanupRemoves, AccountChanges, transcodeVars, TranscodeTypeOK
    <2>4. epoch' \in 1..MaxEpochs /\ epoch \in Nat /\ epoch' \in Nat /\ epoch <= epoch'
      BY <1>0, <1>5, TranscodeAssumption DEF CleanupLooks, CleanupRemoves, AccountChanges, transcodeVars, TranscodeTypeOK,
         TranscodeAssumption
    <2>5. \A j \in TranscodeJobs : job[j].guard \in Nat /\ job[j].guard <= epoch
      BY <1>0 DEF TJob, TranscodeTypeOK
    <2>6. \A j \in TranscodeJobs : job'[j].v \in Variants /\ job'[j].guard <= epoch'
      BY <1>0, <2>1, <2>4, <2>5
    <2>7. TranscodeTypeOK'
      BY <1>0, <2>1, <2>2, <2>3, <2>4, <2>6 DEF TranscodeTypeOK
    <2>8. KeepsFiles
      BY <2>1, <2>2 DEF KeepsFiles
    <2> QED BY <1>0, <2>1, <2>7, <2>8 DEF LeaseInv
  <1>6. ASSUME TranscodeCrash
        PROVE  LeaseInv' /\ KeepsFiles
    <2> DEFINE ended == [NoTranscode EXCEPT !.at = "done"]
    <2>1. PICK no : no = NoTranscode
      OBVIOUS
    <2>3. no \in TJob /\ no.v \in Variants /\ no.at = "none" /\ no.guard = 0
      BY <2>1, NotAJob
    <2>4. no.live = FALSE
      BY <2>1, NotAJob, Zenon
    <2>5. /\ ended \in TJob /\ ended.v \in Variants /\ ended.at = "done" /\ ended.guard = 0
      BY <2>1, <2>3 DEF TJob, Places
    <2>6. ended.live = FALSE
      BY <2>1, <2>3, <2>4, Zenon DEF TJob
    <2> HIDE DEF ended
    <2>7. /\ \A j \in TranscodeJobs : job'[j] = (IF j <= lastJob THEN ended ELSE no)
          /\ job' \in [TranscodeJobs -> TJob]
          /\ UNCHANGED <<lastJob, original, epoch>>
          /\ tjobs' = [v \in Variants |-> 0] /\ source' = 0 /\ cleaning' = "look" /\ crashes' = crashes + 1
          /\ crashes < MaxCrashes
      BY <1>6, <2>1, <2>3, <2>5 DEF TranscodeCrash, ended
    <2>8. out' \in [Variants -> OutStates]
      BY <1>0, <1>6 DEF TranscodeCrash, TranscodeTypeOK, OutStates
    <2>9. aged' \in BOOLEAN
      BY <1>0, <1>6 DEF TranscodeCrash, TranscodeTypeOK
    <2>10. TranscodeTypeOK'
      <3>1. crashes' \in 0..MaxCrashes /\ 0 \in 0..lastJob /\ 0 <= epoch
        BY <1>0, <2>7, TranscodeAssumption DEF TranscodeTypeOK, TranscodeAssumption
      <3>2. \A j \in TranscodeJobs : job'[j].v \in Variants /\ job'[j].guard = 0
        BY <2>3, <2>5, <2>7
      <3> QED BY <1>0, <2>7, <2>8, <2>9, <3>1, <3>2 DEF TranscodeTypeOK
    <2>11. \A j \in TranscodeJobs : job'[j].live = FALSE
      BY <2>4, <2>6, <2>7, Zenon
    <2>12. \A j \in TranscodeJobs : LeaseSound(j)'
      BY <2>3, <2>5, <2>7, <2>11 DEF LeaseSound, Live, Writing
    <2>13. \A j \in TranscodeJobs : HasLiveWriter(j) => job'[j] # job[j]
      BY <1>0, <2>11 DEF Live
    <2>14. KeepsFiles
      BY <2>13 DEF KeepsFiles
    <2> QED BY <2>7, <2>10, <2>12, <2>14 DEF LeaseInv
  <1> QED BY <1>1, <1>2, <1>3, <1>4, <1>5, <1>6 DEF TranscodeNext

(* Before the first job there is no lease. *)
LEMMA LeaseStarts == TranscodeInit => LeaseInv
  <1> SUFFICES ASSUME TranscodeInit PROVE LeaseInv
    OBVIOUS
  <1>1. PICK no : no = NoTranscode
    OBVIOUS
  <1>3. no \in TJob /\ no.v \in Variants /\ no.at = "none" /\ no.guard = 0
    BY <1>1, NotAJob
  <1>4. no.live = FALSE
    BY <1>1, NotAJob, Zenon
  <1>5. job = [j \in TranscodeJobs |-> no] /\ \A j \in TranscodeJobs : job[j] = no
    BY <1>1 DEF TranscodeInit
  <1>6. TranscodeTypeOK
    <2>1. \A j \in TranscodeJobs : job[j].v \in Variants /\ job[j].guard <= epoch
      BY <1>3, <1>5 DEF TranscodeInit
    <2>2. tjobs \in [Variants -> 0..lastJob] /\ lastJob \in 0..MaxJobs /\ source \in 0..lastJob
      BY TranscodeAssumption DEF TranscodeInit, TranscodeAssumption
    <2>3. original \in BOOLEAN /\ aged \in BOOLEAN
      BY Zenon DEF TranscodeInit
    <2>4. out \in [Variants -> OutStates] /\ cleaning \in {"look", "remove", "done"}
      BY DEF TranscodeInit, OutStates
    <2>5. epoch \in 1..MaxEpochs /\ crashes \in 0..MaxCrashes
      BY TranscodeAssumption DEF TranscodeInit, TranscodeAssumption
    <2> QED BY <2>1, <2>2, <2>3, <2>4, <2>5 DEF TranscodeTypeOK
  <1>7. \A j \in TranscodeJobs : LeaseSound(j)
    BY <1>3, <1>4, <1>5 DEF LeaseSound, Live, Writing
  <1> QED BY <1>3, <1>5, <1>6, <1>7 DEF LeaseInv

(* No two workers are on one output, also while a cancelled one is still   *)
(* stopping, and through account changes and restarts.                     *)
THEOREM TranscodeInvariant == TranscodeSpec => []TranscodeInv
  <1>1. TranscodeSpec => []LeaseInv
    BY LeaseStarts, LeaseStep, PTL DEF TranscodeSpec
  <1>2. LeaseInv => TranscodeInv
    <2> SUFFICES ASSUME LeaseInv PROVE TranscodeInv
      OBVIOUS
    <2>1. ASSUME NEW i \in TranscodeJobs, NEW j \in TranscodeJobs, i # j, Writing(i), Writing(j)
          PROVE  job[i].v # job[j].v
      BY <2>1, LiveApart DEF LeaseInv, LeaseSound
    <2> QED BY <2>1 DEF TranscodeInv, OneWriterPerOutput, LeaseInv
  <1> QED BY <1>1, <1>2, PTL

(* Eviction, clearing and other workers leave what a live job works with.  *)
THEOREM FilesKept == TranscodeSpec => LiveFilesKept
  <1>1. TranscodeSpec => []LeaseInv
    BY LeaseStarts, LeaseStep, PTL DEF TranscodeSpec
  <1>2. LeaseInv /\ [TranscodeNext]_transcodeVars => [KeepsFiles]_transcodeVars
    BY LeaseStep
  <1> QED BY <1>1, <1>2, PTL DEF TranscodeSpec, LiveFilesKept, KeepsFiles

-----------------------------------------------------------------------------
(***************************************************************************)
(* WebDAV.  Message ids are never given twice, so that what is known of a  *)
(* file's session stays true of its id; the index only moves on to newer   *)
(* sessions, so that what a request reads in it is of the request's own    *)
(* session or of a later one, which the check before each use refuses.     *)
(***************************************************************************)
DavFile == [login : Nat, name : DavNames, place : {"here", "there"}]
DavNode == [id : 0..MaxDavIds, login : Nat]
DavRows == UNION {[S -> DavNames] : S \in SUBSET DavIds}
DavPlaces == {"idle", "look", "staged", "rows", "node", "fetch", "send", "sent", "delete", "record", "invalidate",
              "edit", "forward", "named", "done"}
DavReq == [pc : DavPlaces, kind : {"none", "put", "delete", "rename", "move", "copy"}, name : DavNames \cup {"none"},
           guard : Nat, ticket : Nat, rows : DavRows, whole : BOOLEAN, node : DavNode, new : 0..MaxDavIds]

\* A file is at Telegram, or was until a request removed it.
Reached(k) == k # 0 /\ (k \in Present \/ gone[k].why # "no")

\* A node is of the session its entry names.
NodeSound(nd) ==
  nd.id # 0 => /\ nd.id <= lastId /\ nd.login <= login
               /\ nd.id \in Present => chatFiles[nd.id].login = nd.login

IndexSound ==
  /\ index \in [guard : Nat, fresh : BOOLEAN, nodes : [DavNames -> DavNode]] /\ index.guard <= login
  /\ \A n \in DavNames : /\ NodeSound(index.nodes[n]) /\ index.nodes[n].login <= index.guard
                         /\ index.nodes[n].id # 0 => index.nodes[n].login = index.guard

ReqBase(q) ==
  /\ q.guard <= index.guard /\ q.new <= lastId
  /\ NodeSound(q.node) /\ (q.node.id # 0 => q.guard <= q.node.login)
  /\ \A i \in DOMAIN q.rows : i <= lastId /\ (i \in Present => chatFiles[i].login = q.guard)

ReqStage(q) ==
  /\ q.pc \in {"look", "rows", "node", "staged", "fetch"} => q.kind # "none" /\ q.name \in DavNames
  /\ q.pc = "send" => q.kind = "put" /\ q.name \in DavNames
  /\ q.pc = "sent" => q.kind = "put" /\ Reached(q.new)
  /\ q.pc = "forward" => q.kind \in {"move", "copy"}
  /\ q.pc = "named" => q.kind \in {"move", "copy"} /\ Reached(q.new)
  /\ q.pc \in {"forward", "named", "edit"} => q.node.id # 0
  /\ q.pc = "delete" => /\ q.kind \in {"put", "delete", "move"} /\ q.node.id # 0
                        /\ q.kind # "delete" => Reached(q.new)

FilesSound ==
  /\ Present \subseteq 1..lastId /\ \A i \in Present : chatFiles[i] \in DavFile
  /\ gone \in [DavIds -> [why : {"no", "put", "delete", "move"}, by : 0..MaxDavIds]]
  /\ \A i \in DavIds : gone[i].why \in {"put", "move"} => gone[i].by <= lastId /\ Reached(gone[i].by)

DavSound ==
  /\ login \in 1..MaxLogins /\ lastId \in 0..MaxDavIds /\ davRev \in Nat
  /\ FilesSound /\ IndexSound /\ req \in [DavRequests -> DavReq]
  /\ \A r \in DavRequests : ReqBase(req[r]) /\ ReqStage(req[r])

\* What every step does to the files there are: none changes its session or
\* comes back, and one that goes has been removed by a request.
DavAges ==
  /\ lastId <= lastId' /\ lastId' \in 0..MaxDavIds /\ login <= login' /\ login' \in 1..MaxLogins
  /\ index'.guard \in Nat /\ index.guard <= index'.guard
  /\ \A i \in 1..lastId : i \in Present' => i \in Present /\ chatFiles'[i].login = chatFiles[i].login
  /\ \A k \in 1..lastId : Reached(k) => Reached(k)'

(* The numbers the invariant is about. *)
LEMMA DavNumbers ==
  ASSUME DavSound
  PROVE  /\ MaxDavIds \in Nat /\ MaxLogins \in Nat /\ login \in Nat /\ lastId \in Nat /\ index.guard \in Nat
         /\ \A r \in DavRequests : /\ req[r] \in DavReq /\ req[r].guard \in Nat /\ req[r].new \in 0..MaxDavIds
                                   /\ req[r].node \in DavNode /\ req[r].node.id \in Nat /\ req[r].node.login \in Nat
                                   /\ req[r].rows \in DavRows /\ DOMAIN req[r].rows \subseteq DavIds
         /\ \A n \in DavNames : /\ index.nodes[n] \in DavNode
                                /\ index.nodes[n].id \in Nat /\ index.nodes[n].login \in Nat
  <1>1. MaxDavIds \in Nat /\ MaxLogins \in Nat
    BY DavBoundsAssumption DEF DavBoundsAssumption
  <1>2. login \in Nat /\ lastId \in Nat /\ index.guard \in Nat
    BY <1>1 DEF DavSound, IndexSound
  <1>3. ASSUME NEW r \in DavRequests
        PROVE  /\ req[r] \in DavReq /\ req[r].guard \in Nat /\ req[r].new \in 0..MaxDavIds
               /\ req[r].node \in DavNode /\ req[r].node.id \in Nat /\ req[r].node.login \in Nat
               /\ req[r].rows \in DavRows /\ DOMAIN req[r].rows \subseteq DavIds
    <2>1. req[r] \in DavReq
      BY DEF DavSound
    <2>2. /\ req[r].guard \in Nat /\ req[r].new \in 0..MaxDavIds /\ req[r].node \in DavNode /\ req[r].rows \in DavRows
      BY <2>1 DEF DavReq
    <2>3. DOMAIN req[r].rows \subseteq DavIds
      BY <2>2 DEF DavRows
    <2> QED BY <1>1, <2>1, <2>2, <2>3 DEF DavNode
  <1>4. \A n \in DavNames : /\ index.nodes[n] \in DavNode
                            /\ index.nodes[n].id \in Nat /\ index.nodes[n].login \in Nat
    BY <1>1 DEF DavSound, IndexSound, DavNode
  <1> QED BY <1>1, <1>2, <1>3, <1>4

(* What is sound of a node stays so. *)
LEMMA NodeAges ==
  ASSUME DavSound, DavAges, NEW nd \in DavNode, NodeSound(nd)
  PROVE  NodeSound(nd)'
  <1>1. nd.id \in Nat /\ nd.login \in Nat /\ lastId' \in Nat /\ login' \in Nat
    BY DavNumbers DEF DavAges, DavNode
  <1>2. nd.id # 0 => nd.id \in 1..lastId
    BY <1>1, DavNumbers DEF NodeSound
  <1> QED BY <1>1, <1>2, DavNumbers DEF DavAges, NodeSound

(* What is sound of a request stays so. *)
LEMMA BaseAges ==
  ASSUME DavSound, DavAges, NEW q \in DavReq, ReqBase(q)
  PROVE  ReqBase(q)'
  <1>1. /\ q.guard \in Nat /\ q.new \in Nat /\ q.node \in DavNode /\ q.rows \in DavRows
        /\ DOMAIN q.rows \subseteq DavIds /\ MaxDavIds \in Nat
    <2>1. /\ q.guard \in Nat /\ q.new \in 0..MaxDavIds /\ q.node \in DavNode /\ q.rows \in DavRows
      BY DEF DavReq
    <2> QED BY <2>1, DavNumbers DEF DavRows
  <1>2. lastId \in Nat /\ lastId' \in Nat /\ lastId <= lastId' /\ index.guard \in Nat /\ index'.guard \in Nat
        /\ index.guard <= index'.guard
    BY DavNumbers DEF DavAges
  <1>3. NodeSound(q.node)'
    BY <1>1, NodeAges DEF ReqBase
  <1>4. ASSUME NEW i \in DOMAIN q.rows PROVE i <= lastId' /\ (i \in Present' => chatFiles'[i].login = q.guard)
    <2>1. i \in 1..lastId /\ (i \in Present => chatFiles[i].login = q.guard)
      BY <1>1, <1>2 DEF ReqBase, DavIds
    <2> QED BY <1>2, <2>1 DEF DavAges
  <1> QED BY <1>1, <1>2, <1>3, <1>4 DEF ReqBase

LEMMA StageAges ==
  ASSUME DavSound, DavAges, NEW q \in DavReq, ReqBase(q), ReqStage(q)
  PROVE  ReqStage(q)'
  <1>1. q.new \in 0..MaxDavIds /\ MaxDavIds \in Nat /\ lastId \in Nat
    BY DavNumbers DEF DavReq
  <1>2. Reached(q.new) => Reached(q.new)'
    BY <1>1 DEF ReqBase, DavAges, Reached
  <1> QED BY <1>2 DEF ReqStage

(* One request moves on, and the others stay sound. *)
LEMMA DavFrame ==
  ASSUME DavSound, DavAges, NEW r \in DavRequests, NEW q \in DavReq, req' = [req EXCEPT ![r] = q],
         ReqBase(q)', ReqStage(q)', IndexSound', FilesSound', davRev' \in Nat
  PROVE  DavSound'
  <1>1. ASSUME NEW o \in DavRequests PROVE ReqBase(req[o])' /\ ReqStage(req[o])'
    <2>1. req'[o] = (IF o = r THEN q ELSE req[o]) /\ req[o] \in DavReq /\ ReqBase(req[o]) /\ ReqStage(req[o])
      BY DEF DavSound
    <2>2. PICK p : p = req[o]
      OBVIOUS
    <2>3. p \in DavReq /\ ReqBase(p) /\ ReqStage(p)
      BY <2>1, <2>2
    <2>4. ReqBase(p)' /\ ReqStage(p)'
      BY <2>3, BaseAges, StageAges
    <2>5. CASE o = r
      BY <2>1, <2>5 DEF ReqBase, ReqStage, NodeSound, Reached
    <2>6. CASE o # r
      BY <2>1, <2>2, <2>4, <2>6 DEF ReqBase, ReqStage, NodeSound, Reached
    <2> QED BY <2>5, <2>6
  <1>2. req' \in [DavRequests -> DavReq]
    BY DEF DavSound
  <1>3. login' \in 1..MaxLogins /\ lastId' \in 0..MaxDavIds
    BY DEF DavAges
  <1> QED BY <1>1, <1>2, <1>3 DEF DavSound

LEMMA DavStands ==
  ASSUME DavSound, DavAges, req' = req, IndexSound', FilesSound', davRev' \in Nat
  PROVE  DavSound'
  <1>1. ASSUME NEW o \in DavRequests PROVE ReqBase(req[o])' /\ ReqStage(req[o])'
    <2>1. PICK p : p = req[o]
      OBVIOUS
    <2>2. p \in DavReq /\ ReqBase(p) /\ ReqStage(p) /\ p = req'[o]
      BY <2>1 DEF DavSound
    <2>3. ReqBase(p)' /\ ReqStage(p)'
      BY <2>2, BaseAges, StageAges
    <2> QED BY <2>2, <2>3 DEF ReqBase, ReqStage, NodeSound, Reached
  <1> QED BY <1>1 DEF DavSound, DavAges

(* The index stays sound when it only forgets, or is bound to the present  *)
(* session.                                                                *)
LEMMA IndexAges ==
  ASSUME DavSound, DavAges,
         index' = index \/ index' = [index EXCEPT !.fresh = FALSE]
  PROVE  IndexSound'
  <1>1. /\ index' \in [guard : Nat, fresh : BOOLEAN, nodes : [DavNames -> DavNode]]
        /\ index'.guard = index.guard /\ index'.nodes = index.nodes
    BY DEF DavSound, IndexSound
  <1>2. index'.guard <= login'
    BY <1>1, DavNumbers DEF DavAges, DavSound, IndexSound
  <1>3. ASSUME NEW n \in DavNames
        PROVE  /\ NodeSound(index.nodes[n])' /\ index'.nodes[n].login <= index'.guard
               /\ index'.nodes[n].id # 0 => index'.nodes[n].login = index'.guard
    <2>1. PICK nd : nd = index.nodes[n]
      OBVIOUS
    <2>2. nd \in DavNode /\ NodeSound(nd) /\ nd = index'.nodes[n]
      BY <1>1, <2>1, DavNumbers DEF DavSound, IndexSound
    <2>3. NodeSound(nd)'
      BY <2>2, NodeAges
    <2> QED BY <1>1, <2>1, <2>2, <2>3 DEF NodeSound, DavSound, IndexSound
  <1> QED BY <1>1, <1>2, <1>3 DEF IndexSound

LEMMA IndexBound ==
  ASSUME DavSound, index' = Bound(index, login), login' = login
  PROVE  /\ index'.guard \in Nat /\ index.guard <= index'.guard /\ index'.guard = login
         /\ DavAges => IndexSound'
  <1>1. login \in Nat /\ index.guard \in Nat /\ index.guard <= login
    BY DavNumbers DEF DavSound, IndexSound
  <1>2. CASE index.guard = login
    <2>1. index' = index
      BY <1>2 DEF Bound
    <2> QED BY <1>1, <1>2, <2>1, IndexAges
  <1>3. CASE index.guard # login
    <2>1. index' = [guard |-> login, fresh |-> FALSE, nodes |-> NoRows]
      BY <1>3 DEF Bound
    <2>2. NoRows \in [DavNames -> DavNode] /\ \A n \in DavNames : NoRows[n].id = 0 /\ NoRows[n].login = 0
      BY DavNumbers DEF NoRows, None, DavNode
    <2>3. /\ index' \in [guard : Nat, fresh : BOOLEAN, nodes : [DavNames -> DavNode]]
          /\ index'.guard = login /\ index'.nodes = NoRows
      BY <1>1, <2>1, <2>2
    <2> QED BY <1>1, <2>2, <2>3 DEF IndexSound, NodeSound
  <1> QED BY <1>2, <1>3

(* Steps that leave the folder alone. *)
LEMMA QuietAges ==
  ASSUME DavSound, UNCHANGED <<login, chatFiles, lastId, gone>>,
         index'.guard \in Nat, index.guard <= index'.guard
  PROVE  DavAges /\ FilesSound'
  <1>1. Present' = Present
    BY DEF Present
  <1>2. /\ lastId <= lastId' /\ lastId' \in 0..MaxDavIds /\ login <= login' /\ login' \in 1..MaxLogins
    BY DavNumbers DEF DavSound
  <1>3. DavAges
    BY <1>1, <1>2 DEF DavAges, Reached
  <1>4. FilesSound'
    BY <1>1 DEF DavSound, FilesSound, Reached
  <1> QED BY <1>3, <1>4

(* A new message takes an id that was never given. *)
LEMMA SendAges ==
  ASSUME DavSound, NEW f \in DavFile, lastId < MaxDavIds, lastId' = lastId + 1, NEW id, id = lastId',
         chatFiles' = Put1(chatFiles, lastId', f), gone' = gone,
         login <= login', login' \in 1..MaxLogins, index'.guard \in Nat, index.guard <= index'.guard
  PROVE  DavAges /\ FilesSound' /\ Reached(id)'
  <1>1. lastId \in Nat /\ MaxDavIds \in Nat /\ lastId' \in 1..MaxDavIds /\ lastId <= lastId' /\ lastId' # 0
    BY DavNumbers
  <1>2. Present' = Present \cup {lastId'} /\ chatFiles'[lastId'] = f
        /\ \A i \in Present : i # lastId' => chatFiles'[i] = chatFiles[i]
    BY DEF Present, Put1
  <1>3. Present \subseteq 1..lastId
    BY DEF DavSound, FilesSound
  <1>4. ASSUME NEW i \in 1..lastId, i \in Present' PROVE i \in Present /\ chatFiles'[i].login = chatFiles[i].login
    <2>1. i # lastId'
      BY <1>1
    <2> QED BY <1>2, <1>4, <2>1
  <1>5. \A k : Reached(k) => Reached(k)'
    BY <1>2 DEF Reached
  <1>6. DavAges
    BY <1>1, <1>4, <1>5 DEF DavAges
  <1>7. FilesSound'
    <2>1. ASSUME NEW i \in Present' PROVE i \in 1..lastId'
      <3>1. CASE i = lastId'
        BY <1>1, <3>1
      <3>2. CASE i # lastId'
        <4>1. i \in 1..lastId
          BY <1>2, <1>3, <3>2
        <4> QED BY <1>1, <4>1
      <3> QED BY <3>1, <3>2
    <2>2. \A i \in Present' : chatFiles'[i] \in DavFile
      BY <1>1, <1>2, <1>3 DEF DavSound, FilesSound
    <2>3. \A i \in DavIds : gone[i].by \in 0..MaxDavIds
      BY DEF DavSound, FilesSound
    <2>4. \A i \in DavIds : gone'[i].why \in {"put", "move"} => gone'[i].by <= lastId' /\ Reached(gone[i].by)'
      BY <1>1, <1>5, <2>3 DEF DavSound, FilesSound
    <2> QED BY <2>1, <2>2, <2>4 DEF DavSound, FilesSound, Reached
  <1>8. Reached(id)'
    BY <1>1, <1>2 DEF Reached
  <1> QED BY <1>6, <1>7, <1>8

(* A file that gets another name stays, of the same session. *)
LEMMA RenameAges ==
  ASSUME DavSound, NEW i \in Present, NEW n \in DavNames, chatFiles' = [chatFiles EXCEPT ![i].name = n],
         UNCHANGED <<login, lastId, gone>>, index'.guard \in Nat, index.guard <= index'.guard
  PROVE  DavAges /\ FilesSound'
  <1>1. Present' = Present
    BY DEF Present
  <1>2. /\ lastId <= lastId' /\ lastId' \in 0..MaxDavIds /\ login <= login' /\ login' \in 1..MaxLogins
    BY DavNumbers DEF DavSound
  <1>3. PICK f : f = chatFiles[i]
    OBVIOUS
  <1>4. f \in DavFile
    BY <1>3 DEF DavSound, FilesSound
  <1>5. [f EXCEPT !.name = n] \in DavFile /\ [f EXCEPT !.name = n].login = f.login
    BY <1>4 DEF DavFile
  <1>6. /\ chatFiles'[i] = [f EXCEPT !.name = n]
        /\ \A k \in Present : k # i => chatFiles'[k] = chatFiles[k]
    BY <1>3 DEF Present
  <1>7. \A k \in Present : chatFiles'[k] \in DavFile /\ chatFiles'[k].login = chatFiles[k].login
    BY <1>3, <1>5, <1>6 DEF DavSound, FilesSound
  <1>8. DavAges
    BY <1>1, <1>2, <1>7 DEF DavAges, Reached
  <1>9. FilesSound'
    BY <1>1, <1>7 DEF DavSound, FilesSound, Reached
  <1> QED BY <1>8, <1>9

(* A file goes, and what takes its place had reached Telegram. *)
LEMMA RemoveAges ==
  ASSUME DavSound, NEW i \in DavIds, NEW kind \in {"put", "delete", "move"}, NEW by \in 0..MaxDavIds,
         by <= lastId, kind # "delete" => Reached(by),
         chatFiles' = WithoutEntry(chatFiles, i),
         gone' = IF i \in Present THEN [gone EXCEPT ![i] = [why |-> kind, by |-> by]] ELSE gone,
         UNCHANGED <<login, lastId>>, index'.guard \in Nat, index.guard <= index'.guard
  PROVE  DavAges /\ FilesSound'
  <1>1. Present' = Present \ {i} /\ \A k \in Present' : chatFiles'[k] = chatFiles[k]
    BY DEF Present, WithoutEntry
  <1>2. /\ lastId <= lastId' /\ lastId' \in 0..MaxDavIds /\ login <= login' /\ login' \in 1..MaxLogins
    BY DavNumbers DEF DavSound
  <1>3. gone \in [DavIds -> [why : {"no", "put", "delete", "move"}, by : 0..MaxDavIds]]
    BY DEF DavSound, FilesSound
  <1>4. gone' \in [DavIds -> [why : {"no", "put", "delete", "move"}, by : 0..MaxDavIds]]
    BY <1>3
  <1>5. \A k : Reached(k) => Reached(k)'
    <2>1. ASSUME NEW k, Reached(k) PROVE Reached(k)'
      <3>1. CASE k # i
        BY <1>1, <1>3, <2>1, <3>1 DEF Reached
      <3>2. CASE k = i /\ i \in Present
        <4>1. gone'[i].why = kind
          BY <1>3, <3>2
        <4> QED BY <2>1, <3>2, <4>1 DEF Reached
      <3>3. CASE k = i /\ i \notin Present
        BY <1>1, <2>1, <3>3 DEF Reached
      <3> QED BY <3>1, <3>2, <3>3
    <2> QED BY <2>1
  <1>6. DavAges
    BY <1>1, <1>2, <1>5 DEF DavAges
  <1>7. ASSUME NEW k \in DavIds, gone'[k].why \in {"put", "move"}
        PROVE  gone'[k].by <= lastId' /\ \A b : b = gone'[k].by => Reached(b)'
    <2>1. CASE k = i /\ i \in Present
      <3>1. gone'[k].why = kind /\ gone'[k].by = by
        BY <1>3, <2>1
      <3> QED BY <1>2, <1>5, <1>7, <3>1
    <2>2. CASE ~(k = i /\ i \in Present)
      <3>1. gone'[k] = gone[k]
        BY <1>3, <2>2
      <3>2. gone[k].by <= lastId /\ Reached(gone[k].by)
        BY <1>7, <3>1 DEF DavSound, FilesSound
      <3>3. PICK b : b = gone[k].by
        OBVIOUS
      <3>4. Reached(b)'
        BY <1>5, <3>2, <3>3
      <3> QED BY <3>1, <3>2, <3>3, <3>4 DEF Reached
    <2> QED BY <2>1, <2>2
  <1>8. FilesSound'
    <2>1. Present' \subseteq 1..lastId' /\ \A k \in Present' : chatFiles'[k] \in DavFile
      BY <1>1 DEF DavSound, FilesSound
    <2> QED BY <1>4, <1>7, <2>1 DEF FilesSound, Reached
  <1> QED BY <1>6, <1>8

(* A request that goes on keeps what it knows; one that answered knows     *)
(* nothing.                                                                *)
LEMMA AtMoves ==
  ASSUME DavSound, NEW r \in DavRequests, NEW pc \in DavPlaces, At(r, pc),
         NEW q, q = [req[r] EXCEPT !.pc = pc]
  PROVE  /\ q \in DavReq /\ req' = [req EXCEPT ![r] = q] /\ q.pc = pc /\ ReqBase(q)
         /\ q.kind = req[r].kind /\ q.name = req[r].name /\ q.node = req[r].node /\ q.new = req[r].new
         /\ q.guard = req[r].guard
  <1>1. req[r] \in DavReq /\ ReqBase(req[r])
    BY DEF DavSound
  <1>2. PICK p : p = req[r]
    OBVIOUS
  <1>3. /\ q \in DavReq /\ q.pc = pc /\ q.kind = p.kind /\ q.name = p.name /\ q.node = p.node /\ q.new = p.new
        /\ q.guard = p.guard /\ q.rows = p.rows
    BY <1>1, <1>2 DEF DavReq
  <1>4. req' = [req EXCEPT ![r] = q]
    BY DEF At
  <1> QED BY <1>1, <1>2, <1>3, <1>4 DEF ReqBase

LEMMA NoReqFits ==
  /\ NoReq \in DavReq /\ NoReq.guard = 0 /\ NoReq.node.id = 0 /\ NoReq.new = 0 /\ NoReq.pc = "idle"
  /\ DOMAIN NoReq.rows = {}
  <1>1. MaxDavIds \in Nat
    BY DavBoundsAssumption DEF DavBoundsAssumption
  <1>2. PICK rows : rows = <<>>
    OBVIOUS
  <1>3. rows \in [{} -> DavNames] /\ DOMAIN rows = {}
    BY <1>2
  <1>4. rows \in DavRows
    BY <1>3 DEF DavRows
  <1>5. PICK nd : nd = None
    OBVIOUS
  <1>6. nd \in DavNode /\ nd.id = 0
    BY <1>1, <1>5 DEF None, DavNode
  <1>7. NoReq = [pc |-> "idle", kind |-> "none", name |-> "none", guard |-> 0, ticket |-> 0, rows |-> rows,
                 whole |-> FALSE, node |-> nd, new |-> 0]
    BY <1>2, <1>5 DEF NoReq
  <1>8. NoReq \in DavReq
    BY <1>1, <1>4, <1>6, <1>7 DEF DavReq, DavPlaces
  <1> QED BY <1>3, <1>6, <1>7, <1>8

LEMMA AnswerMoves ==
  ASSUME DavSound, NEW r \in DavRequests, Answer(r), NEW q, q = [NoReq EXCEPT !.pc = "done"]
  PROVE  q \in DavReq /\ req' = [req EXCEPT ![r] = q] /\ q.pc = "done" /\ ReqBase(q) /\ ReqStage(q)
  <1>1. PICK no : no = NoReq
    OBVIOUS
  <1>2. no \in DavReq /\ no.guard = 0 /\ no.node.id = 0 /\ no.new = 0 /\ DOMAIN no.rows = {}
    BY <1>1, NoReqFits
  <1>3. /\ q \in DavReq /\ q.pc = "done" /\ q.guard = 0 /\ q.node.id = 0 /\ q.new = 0 /\ DOMAIN q.rows = {}
    BY <1>1, <1>2 DEF DavReq, DavPlaces
  <1>4. req' = [req EXCEPT ![r] = q]
    BY DEF Answer
  <1> QED BY <1>3, <1>4, DavNumbers DEF ReqBase, ReqStage, NodeSound

\* A step of a request that leaves the folder as it is.
LEMMA QuietMoves ==
  ASSUME DavSound, NEW r \in DavRequests, NEW q \in DavReq, req' = [req EXCEPT ![r] = q],
         ReqBase(q), ReqStage(q), UNCHANGED <<login, chatFiles, lastId, gone>>,
         \/ index' = index \/ index' = [index EXCEPT !.fresh = FALSE] \/ index' = Bound(index, login),
         davRev' \in Nat
  PROVE  DavSound'
  <1>1. index'.guard \in Nat /\ index.guard <= index'.guard
    <2>1. CASE index' = Bound(index, login)
      BY <2>1, IndexBound
    <2>2. CASE index' # Bound(index, login)
      <3>1. index'.guard = index.guard
        BY <2>2 DEF DavSound, IndexSound
      <3> QED BY <3>1, DavNumbers
    <2> QED BY <2>1, <2>2
  <1>2. DavAges /\ FilesSound'
    BY <1>1, QuietAges
  <1>3. IndexSound'
    BY <1>2, IndexAges, IndexBound
  <1>4. ReqBase(q)' /\ ReqStage(q)'
    BY <1>2, BaseAges, StageAges
  <1> QED BY <1>2, <1>3, <1>4, DavFrame

\* A request arrives in the present session, to which the index is bound.
LEMMA ArriveKeeps ==
  ASSUME DavSound, NEW r \in DavRequests, NEW n \in DavNames,
         OpenForWrite(r, n) \/ \E k \in {"delete", "rename", "move", "copy"} : Arrive(r, k, n)
  PROVE  DavSound'
  <1>1. PICK kind \in {"put", "delete", "rename", "move", "copy"}, pc \in {"look", "staged"} :
          req' = [req EXCEPT ![r] = [NoReq EXCEPT !.pc = pc, !.kind = kind, !.name = n, !.guard = login]]
    BY DEF OpenForWrite, Arrive
  <1>2. PICK no : no = NoReq
    OBVIOUS
  <1> DEFINE half == [no EXCEPT !.pc = pc, !.kind = kind]
             full == [half EXCEPT !.name = n, !.guard = login]
  <1>3. PICK q : q = full /\ req' = [req EXCEPT ![r] = q]
    BY <1>1, <1>2
  <1>4. /\ half \in DavReq /\ half.pc = pc /\ half.kind = kind /\ half.node.id = 0 /\ half.new = 0
        /\ DOMAIN half.rows = {}
    BY <1>2, NoReqFits DEF DavReq, DavPlaces
  <1> HIDE DEF half
  <1>5. /\ q \in DavReq /\ q.pc = pc /\ q.kind = kind /\ q.node.id = 0 /\ q.new = 0
        /\ DOMAIN q.rows = {} /\ q.name = n /\ q.guard = login
    BY <1>3, <1>4, DavNumbers DEF DavReq
  <1> HIDE DEF full
  <1>6. index' = Bound(index, login) /\ UNCHANGED <<login, chatFiles, lastId, gone, davRev>>
    BY DEF OpenForWrite, Arrive
  <1>7. index'.guard \in Nat /\ index.guard <= index'.guard /\ index'.guard = login
    BY <1>6, IndexBound
  <1>8. DavAges /\ FilesSound'
    BY <1>6, <1>7, QuietAges
  <1>9. IndexSound'
    BY <1>6, <1>8, IndexBound
  <1>10. ReqBase(q)' /\ ReqStage(q)'
    <2>1. q.guard <= index'.guard /\ q.new <= lastId'
      BY <1>5, <1>6, <1>7, DavNumbers
    <2> QED BY <1>5, <2>1 DEF ReqBase, ReqStage, NodeSound
  <1>11. davRev' \in Nat
    BY <1>6 DEF DavSound
  <1> QED BY <1>3, <1>5, <1>8, <1>9, <1>10, <1>11, DavFrame

\* What a listing contains is of the session that listed.
LEMMA ListKeeps ==
  ASSUME DavSound, NEW r \in DavRequests, ListFolder(r)
  PROVE  DavSound'
  <1>1. PICK S \in SUBSET Visible(req[r].guard) :
          req' = [req EXCEPT ![r].pc = "rows", ![r].ticket = davRev, ![r].whole = (S = Visible(req[r].guard)),
                             ![r].rows = [i \in S |-> chatFiles[i].name]]
    BY DEF ListFolder
  <1>2. PICK p, whole, rows : p = req[r] /\ whole = (S = Visible(req[r].guard)) /\ rows = [i \in S |-> chatFiles[i].name]
    OBVIOUS
  <1> DEFINE half == [p EXCEPT !.pc = "rows", !.ticket = davRev]
             q == [half EXCEPT !.whole = whole, !.rows = rows]
  <1>3. req' = [req EXCEPT ![r] = q]
    BY <1>1, <1>2
  <1>4. S \subseteq DavIds /\ \A i \in S : i \in Present /\ chatFiles[i].login = p.guard
    <2>1. S \subseteq Visible(req[r].guard)
      OBVIOUS
    <2>2. \A i \in S : i \in Present /\ chatFiles[i].login = p.guard
      BY <1>2, <2>1 DEF Visible
    <2>3. Present \subseteq 1..lastId /\ lastId \in 0..MaxDavIds
      BY DEF DavSound, FilesSound
    <2>4. 1..lastId \subseteq DavIds
      BY <2>3, DavNumbers DEF DavIds
    <2> QED BY <2>2, <2>3, <2>4
  <1>5. rows \in [S -> DavNames]
    BY <1>2, <1>4 DEF DavSound, FilesSound, DavFile
  <1>6. rows \in DavRows /\ DOMAIN rows = S /\ whole \in BOOLEAN
    BY <1>2, <1>4, <1>5 DEF DavRows
  <1>7. p \in DavReq /\ ReqBase(p) /\ ReqStage(p) /\ p.pc = "look" /\ davRev \in Nat
    BY <1>2 DEF DavSound, ListFolder
  <1>8. /\ half \in DavReq /\ half.pc = "rows" /\ half.kind = p.kind /\ half.name = p.name /\ half.node = p.node
        /\ half.new = p.new /\ half.guard = p.guard
    BY <1>7 DEF DavReq, DavPlaces
  <1> HIDE DEF half
  <1>9. /\ q \in DavReq /\ q.pc = "rows" /\ q.kind = p.kind /\ q.name = p.name /\ q.node = p.node
        /\ q.new = p.new /\ q.guard = p.guard /\ q.rows = rows
    BY <1>6, <1>8 DEF DavReq
  <1> HIDE DEF q
  <1>10. \A i \in DOMAIN q.rows : i <= lastId /\ (i \in Present => chatFiles[i].login = q.guard)
    <2>1. \A i \in S : i \in Present /\ i \in 1..lastId /\ chatFiles[i].login = p.guard
      BY <1>4 DEF DavSound, FilesSound
    <2> QED BY <1>6, <1>9, <2>1, DavNumbers
  <1>11. ReqBase(q) /\ ReqStage(q)
    BY <1>7, <1>9, <1>10 DEF ReqBase, ReqStage
  <1>12. UNCHANGED <<login, chatFiles, lastId, gone, index, davRev>>
    BY DEF ListFolder
  <1> QED BY <1>3, <1>7, <1>9, <1>11, <1>12, QuietMoves

\* What is published is of the present session, or stood in its index before.
LEMMA PublishKeeps ==
  ASSUME DavSound, NEW r \in DavRequests, PublishRows(r)
  PROVE  DavSound'
  <1>0. UNCHANGED <<login, chatFiles, lastId, davRev, gone>> /\ davRev' \in Nat /\ req[r].pc = "rows"
    BY DEF PublishRows, DavSound
  <1>1. CASE ~(GuardValid(r) /\ req[r].ticket = davRev)
    <2>1. PICK q : q = [NoReq EXCEPT !.pc = "done"]
      OBVIOUS
    <2>2. Answer(r) /\ index' = index
      BY <1>1 DEF PublishRows
    <2>3. q \in DavReq /\ req' = [req EXCEPT ![r] = q] /\ ReqBase(q) /\ ReqStage(q)
      BY <2>1, <2>2, AnswerMoves
    <2> QED BY <1>0, <2>2, <2>3, QuietMoves
  <1>2. CASE GuardValid(r) /\ req[r].ticket = davRev
    <2>1. /\ At(r, "node") /\ req[r].guard = login
          /\ index' = [guard |-> login, fresh |-> TRUE,
                       nodes |-> IF index.guard = login THEN [n \in DavNames |-> Aliased(r, n)]
                                 ELSE [n \in DavNames |-> IF req[r].whole THEN Aliased(r, n) ELSE None]]
      BY <1>2 DEF PublishRows, GuardValid
    <2>2. ASSUME NEW n \in DavNames
          PROVE  /\ Aliased(r, n) \in DavNode /\ NodeSound(Aliased(r, n))
                 /\ Aliased(r, n).login <= login
                 /\ Aliased(r, n).id # 0 =>
                      Aliased(r, n).login = login \/ (~req[r].whole /\ Aliased(r, n) = index.nodes[n])
      <3>1. PICK rows : rows = req[r].rows
        OBVIOUS
      <3>2. \A i \in DOMAIN rows : /\ i \in DavIds /\ i \in Nat /\ i # 0 /\ i <= lastId
                                   /\ i \in Present => chatFiles[i].login = login
        BY <2>1, <3>1, DavNumbers DEF DavSound, ReqBase, DavIds
      <3>3. CASE ~req[r].whole /\ index.nodes[n].id # 0 /\ index.nodes[n].id \notin DOMAIN rows
        <4>1. Aliased(r, n) = index.nodes[n]
          BY <3>1, <3>3 DEF Aliased
        <4>2. index.nodes[n].login <= index.guard /\ index.guard <= login
          BY DEF DavSound, IndexSound
        <4> QED BY <3>3, <4>1, <4>2, DavNumbers DEF DavSound, IndexSound
      <3>4. CASE ~(~req[r].whole /\ index.nodes[n].id # 0 /\ index.nodes[n].id \notin DOMAIN rows)
        <4>1. PICK named : named = {i \in DOMAIN rows : rows[i] = n}
          OBVIOUS
        <4>2. CASE Cardinality(named) = 1
          <5>1. named # {}
            <6>1. Cardinality({}) = 0
              BY FS_EmptySet
            <6> QED BY <4>2, <6>1
          <5>2. PICK k : k = CHOOSE i \in named : TRUE
            OBVIOUS
          <5>3. k \in named
            BY <5>1, <5>2
          <5>4. Aliased(r, n) = [id |-> k, login |-> login]
            BY <2>1, <3>1, <3>4, <4>1, <4>2, <5>2 DEF Aliased
          <5>5. [id |-> k, login |-> login] \in DavNode
            BY <3>2, <4>1, <5>3, DavNumbers DEF DavNode, DavIds
          <5> QED BY <3>2, <4>1, <5>3, <5>4, <5>5, DavNumbers DEF NodeSound
        <4>3. CASE Cardinality(named) # 1
          <5>1. Aliased(r, n) = None
            BY <3>1, <3>4, <4>1, <4>3 DEF Aliased
          <5> QED BY <5>1, DavNumbers DEF None, DavNode, NodeSound
        <4> QED BY <4>2, <4>3
      <3> QED BY <3>3, <3>4
    <2>3. PICK nodes : nodes = index'.nodes
      OBVIOUS
    <2>4. None \in DavNode /\ None.id = 0 /\ None.login <= login
      BY DavNumbers DEF None, DavNode
    <2>5. /\ nodes \in [DavNames -> DavNode]
          /\ \A n \in DavNames : /\ NodeSound(nodes[n]) /\ nodes[n].login <= login
                                 /\ nodes[n].id # 0 => nodes[n].login = login
      <3>1. CASE index.guard = login
        <4>1. nodes = [n \in DavNames |-> Aliased(r, n)]
          BY <2>1, <2>3, <3>1
        <4>2. \A n \in DavNames : index.nodes[n].id # 0 => index.nodes[n].login = login
          BY <3>1 DEF DavSound, IndexSound
        <4>3. ASSUME NEW n \in DavNames
              PROVE  /\ nodes[n] \in DavNode /\ NodeSound(nodes[n]) /\ nodes[n].login <= login
                     /\ nodes[n].id # 0 => nodes[n].login = login
          BY <2>2, <4>1, <4>2
        <4> QED BY <4>1, <4>3
      <3>2. CASE index.guard # login
        <4>1. nodes = [n \in DavNames |-> IF req[r].whole THEN Aliased(r, n) ELSE None]
          BY <2>1, <2>3, <3>2
        <4>2. ASSUME NEW n \in DavNames
              PROVE  /\ nodes[n] \in DavNode /\ NodeSound(nodes[n]) /\ nodes[n].login <= login
                     /\ nodes[n].id # 0 => nodes[n].login = login
          <5>1. CASE req[r].whole
            BY <2>2, <4>1, <5>1
          <5>2. CASE ~req[r].whole
            BY <2>4, <4>1, <5>2 DEF NodeSound
          <5> QED BY <5>1, <5>2
        <4> QED BY <4>1, <4>2
      <3> QED BY <3>1, <3>2
    <2>6. /\ index' \in [guard : Nat, fresh : BOOLEAN, nodes : [DavNames -> DavNode]]
          /\ index'.guard = login /\ login \in Nat /\ index.guard <= login
      BY <2>1, <2>3, <2>5, DavNumbers DEF DavSound, IndexSound
    <2>7. DavAges /\ FilesSound'
      BY <1>0, <2>6, QuietAges
    <2>8. ASSUME NEW n \in DavNames PROVE NodeSound(nodes[n])' 
      <3>1. PICK nd : nd = nodes[n]
        OBVIOUS
      <3>2. nd \in DavNode /\ NodeSound(nd)
        BY <2>5, <3>1
      <3> QED BY <2>7, <3>1, <3>2, NodeAges
    <2>9. IndexSound'
      <3>1. \A n \in DavNames : /\ NodeSound(index.nodes[n])' /\ index'.nodes[n].login <= index'.guard
                                /\ index'.nodes[n].id # 0 => index'.nodes[n].login = index'.guard
        BY <2>3, <2>5, <2>6, <2>8 DEF NodeSound
      <3> QED BY <1>0, <2>6, <3>1 DEF IndexSound
    <2>10. PICK q, pc : pc = "node" /\ q = [req[r] EXCEPT !.pc = pc] /\ At(r, pc)
      BY <2>1
    <2>11. /\ q \in DavReq /\ req' = [req EXCEPT ![r] = q] /\ q.pc = "node" /\ ReqBase(q)
           /\ q.kind = req[r].kind /\ q.name = req[r].name
      <3>1. pc \in DavPlaces
        BY <2>10 DEF DavPlaces
      <3>2. /\ q \in DavReq /\ req' = [req EXCEPT ![r] = q] /\ q.pc = pc /\ ReqBase(q)
            /\ q.kind = req[r].kind /\ q.name = req[r].name
        BY <2>10, <3>1, AtMoves
      <3> QED BY <2>10, <3>2
    <2>12. ReqStage(q)
      BY <1>0, <2>11 DEF DavSound, ReqStage
    <2>13. ReqBase(q)' /\ ReqStage(q)'
      BY <2>7, <2>11, <2>12, BaseAges, StageAges
    <2> QED BY <1>0, <2>7, <2>9, <2>11, <2>13, DavFrame
  <1> QED BY <1>1, <1>2

(* The rest of the steps of a request that leave the folder as it is.      *)
LEMMA QuietKeeps ==
  ASSUME DavSound, NEW r \in DavRequests,
         \/ Flush(r) \/ IndexAtHand(r) \/ ReadNode(r) \/ FetchMedia(r) \/ Announce(r) \/ RecordChange(r)
         \/ Invalidate(r) \/ RequestFails(r)
  PROVE  DavSound'
  <1>0. req[r] \in DavReq /\ ReqBase(req[r]) /\ ReqStage(req[r]) /\ davRev \in Nat
    BY DEF DavSound
  <1>1. UNCHANGED <<login, chatFiles, lastId, gone>> /\ davRev' \in Nat
    BY <1>0 DEF Flush, IndexAtHand, ReadNode, FetchMedia, Announce, RecordChange, Invalidate, RequestFails
  <1>2. index' = index \/ index' = [index EXCEPT !.fresh = FALSE] \/ index' = Bound(index, login)
    BY DEF Flush, IndexAtHand, ReadNode, FetchMedia, Announce, RecordChange, Invalidate, RequestFails
  <1>3. ASSUME Answer(r) PROVE DavSound'
    <2>1. PICK q : q = [NoReq EXCEPT !.pc = "done"]
      OBVIOUS
    <2>2. q \in DavReq /\ req' = [req EXCEPT ![r] = q] /\ ReqBase(q) /\ ReqStage(q)
      BY <1>3, <2>1, AnswerMoves
    <2> QED BY <1>1, <1>2, <2>2, QuietMoves
  <1>4. ASSUME NEW pc \in DavPlaces, At(r, pc),
               \A q \in DavReq : q.pc = pc /\ q.kind = req[r].kind /\ q.name = req[r].name /\ q.node = req[r].node
                                   /\ q.new = req[r].new => ReqStage(q)
        PROVE  DavSound'
    <2>1. PICK q : q = [req[r] EXCEPT !.pc = pc]
      OBVIOUS
    <2>3. /\ q \in DavReq /\ req' = [req EXCEPT ![r] = q] /\ q.pc = pc /\ ReqBase(q)
          /\ q.kind = req[r].kind /\ q.name = req[r].name /\ q.node = req[r].node /\ q.new = req[r].new
      BY <1>4, <2>1, AtMoves
    <2>4. ReqStage(q)
      BY <1>4, <2>3
    <2> QED BY <1>1, <1>2, <2>3, <2>4, QuietMoves
  <1>5. CASE Flush(r) \/ IndexAtHand(r)
    <2>1. PICK pc \in {"look", "node"} : At(r, pc)
      BY <1>5 DEF Flush, IndexAtHand
    <2>2. req[r].pc \in {"look", "staged"}
      BY <1>5 DEF Flush, IndexAtHand
    <2>3. pc \in DavPlaces
      BY <2>1 DEF DavPlaces
    <2>4. req[r].kind # "none" /\ req[r].name \in DavNames
      BY <1>0, <2>2 DEF ReqStage
    <2>5. \A q \in DavReq : q.pc = pc /\ q.kind = req[r].kind /\ q.name = req[r].name /\ q.node = req[r].node
                                   /\ q.new = req[r].new => ReqStage(q)
      BY <2>1, <2>4 DEF ReqStage
    <2> QED BY <1>4, <2>1, <2>3, <2>5
  <1>6. CASE ReadNode(r)
    <2>1. PICK p, nd, name : p = req[r] /\ name = p.name /\ nd = index.nodes[name]
      OBVIOUS
    <2>2. PICK q : q = [p EXCEPT !.pc = "fetch", !.node = nd] /\ req' = [req EXCEPT ![r] = q]
      BY <1>6, <2>1 DEF ReadNode
    <2>3. p \in DavReq /\ p.pc = "node" /\ p.kind # "none" /\ name \in DavNames /\ ReqBase(p)
      BY <1>0, <1>6, <2>1 DEF ReadNode, ReqStage
    <2>4. nd \in DavNode /\ NodeSound(nd) /\ (nd.id # 0 => nd.login = index.guard)
      BY <2>1, <2>3, DavNumbers DEF DavSound, IndexSound
    <2>5. /\ q \in DavReq /\ q.pc = "fetch" /\ q.kind = p.kind /\ q.name = p.name /\ q.node = nd
          /\ q.new = p.new /\ q.guard = p.guard /\ q.rows = p.rows
      BY <2>2, <2>3, <2>4 DEF DavReq, DavPlaces
    <2>6. q.node.id # 0 => q.guard <= q.node.login
      BY <2>3, <2>4, <2>5 DEF ReqBase
    <2>7. ReqBase(q)
      BY <2>3, <2>4, <2>5, <2>6 DEF ReqBase
    <2>8. ReqStage(q)
      BY <2>1, <2>3, <2>5 DEF ReqStage
    <2> QED BY <1>1, <1>2, <2>2, <2>5, <2>7, <2>8, QuietMoves
  <1>7. CASE FetchMedia(r)
    <2>1. PICK pc : /\ pc = (CASE req[r].kind = "put" -> "send" [] req[r].kind = "delete" -> "delete"
                               [] req[r].kind = "rename" -> "edit" [] OTHER -> "forward")
                    /\ At(r, pc)
      BY <1>7 DEF FetchMedia
    <2>2. req[r].pc = "fetch" /\ (req[r].kind = "put" \/ req[r].node.id # 0)
      BY <1>7 DEF FetchMedia, Fetched
    <2>3. req[r].kind \in {"put", "delete", "rename", "move", "copy"} /\ req[r].name \in DavNames
      BY <1>0, <2>2 DEF DavReq, ReqStage
    <2>4. pc \in DavPlaces
      BY <2>1, <2>3 DEF DavPlaces
    <2>5. ASSUME NEW q \in DavReq, q.pc = pc, q.kind = req[r].kind, q.name = req[r].name, q.node = req[r].node,
                 q.new = req[r].new
          PROVE  ReqStage(q)
      BY <2>1, <2>2, <2>3, <2>5 DEF ReqStage
    <2> QED BY <1>4, <2>1, <2>4, <2>5
  <1>8. CASE Announce(r)
    <2>1. PICK pc \in {"invalidate", "delete"} : At(r, pc) /\ (pc = "delete" => req[r].node.id # 0)
      BY <1>8 DEF Announce
    <2>2. req[r].pc = "sent" /\ req[r].kind = "put" /\ Reached(req[r].new)
      BY <1>0, <1>8 DEF Announce, ReqStage
    <2>3. pc \in DavPlaces
      BY <2>1 DEF DavPlaces
    <2>4. \A q \in DavReq : q.pc = pc /\ q.kind = req[r].kind /\ q.name = req[r].name /\ q.node = req[r].node
                                   /\ q.new = req[r].new => ReqStage(q)
      BY <2>1, <2>2 DEF ReqStage
    <2> QED BY <1>4, <2>1, <2>3, <2>4
  <1>9. CASE RecordChange(r)
    <2>1. At(r, "invalidate")
      BY <1>9 DEF RecordChange
    <2>2. "invalidate" \in DavPlaces
      BY DEF DavPlaces
    <2>3. \A q \in DavReq : q.pc = "invalidate" => ReqStage(q)
      BY DEF ReqStage
    <2> QED BY <1>4, <2>1, <2>2, <2>3
  <1>10. CASE Invalidate(r) \/ RequestFails(r)
    BY <1>3, <1>10 DEF Invalidate, RequestFails
  <1> QED BY <1>5, <1>6, <1>7, <1>8, <1>9, <1>10

(* The steps that change the folder.                                       *)
LEMMA SendKeeps ==
  ASSUME DavSound, NEW r \in DavRequests, SendFile(r) \/ SendLost(r) \/ ForwardFile(r)
  PROVE  DavSound'
  <1>0. req[r] \in DavReq /\ ReqBase(req[r]) /\ ReqStage(req[r]) /\ davRev \in Nat
    BY DEF DavSound
  <1>1. PICK f : f = chatFiles'[lastId']
    OBVIOUS
  <1>2. /\ lastId < MaxDavIds /\ lastId' = lastId + 1 /\ UNCHANGED <<login, gone>> /\ davRev' \in Nat
        /\ index' = index \/ index' = [index EXCEPT !.fresh = FALSE]
        /\ f \in DavFile /\ chatFiles' = Put1(chatFiles, lastId', f)
    <2>1. CASE SendFile(r) \/ SendLost(r)
      <3>1. req[r].name \in DavNames
        BY <1>0, <2>1 DEF SendFile, SendLost, ReqStage
      <3>2. chatFiles' = Put1(chatFiles, lastId', [login |-> login, name |-> req[r].name, place |-> "here"])
        BY <2>1 DEF SendFile, SendLost
      <3>3. f = [login |-> login, name |-> req[r].name, place |-> "here"]
        BY <1>1, <3>2 DEF Put1
      <3>4. f \in DavFile
        BY <3>1, <3>3, DavNumbers DEF DavFile
      <3> QED BY <1>0, <2>1, <3>2, <3>3, <3>4 DEF SendFile, SendLost
    <2>2. CASE ForwardFile(r)
      <3>1. PICK g : g = chatFiles[req[r].node.id]
        OBVIOUS
      <3>2. g \in DavFile
        BY <2>2, <3>1 DEF ForwardFile, Found, DavSound, FilesSound
      <3>3. chatFiles' = Put1(chatFiles, lastId', [g EXCEPT !.place = "there"])
        BY <2>2, <3>1 DEF ForwardFile
      <3>4. f = [g EXCEPT !.place = "there"]
        BY <1>1, <3>3 DEF Put1
      <3>5. f \in DavFile
        BY <3>2, <3>4 DEF DavFile
      <3> QED BY <1>0, <2>2, <3>3, <3>4, <3>5 DEF ForwardFile
    <2> QED BY <2>1, <2>2
  <1>3. PICK id : id = lastId'
    OBVIOUS
  <1>4. index'.guard = index.guard
    BY <1>2 DEF DavSound, IndexSound
  <1>5. DavAges /\ FilesSound' /\ Reached(id)'
    <2>1. login <= login' /\ login' \in 1..MaxLogins /\ index'.guard \in Nat /\ index.guard <= index'.guard
      BY <1>2, <1>4, DavNumbers DEF DavSound
    <2>2. gone' = gone
      BY <1>2
    <2> QED BY <1>2, <1>3, <2>1, <2>2, SendAges
  <1>6. IndexSound'
    BY <1>2, <1>5, IndexAges
  <1>7. CASE SendLost(r)
    <2>1. PICK q : q = [NoReq EXCEPT !.pc = "done"]
      OBVIOUS
    <2>2. q \in DavReq /\ req' = [req EXCEPT ![r] = q] /\ ReqBase(q) /\ ReqStage(q)
      BY <1>7, <2>1, AnswerMoves DEF SendLost
    <2>3. ReqBase(q)' /\ ReqStage(q)'
      BY <1>5, <2>2, BaseAges, StageAges
    <2> QED BY <1>2, <1>5, <1>6, <2>2, <2>3, DavFrame
  <1>8. CASE SendFile(r) \/ ForwardFile(r)
    <2>1. PICK pc \in {"sent", "named"} :
            /\ req' = [req EXCEPT ![r].pc = pc, ![r].new = lastId']
            /\ pc = "sent" => SendFile(r)
            /\ pc = "named" => ForwardFile(r)
      BY <1>8 DEF SendFile, ForwardFile
    <2>2. /\ pc = "sent" => req[r].kind = "put"
          /\ pc = "named" => req[r].kind \in {"move", "copy"} /\ req[r].node.id # 0
      BY <1>0, <1>8, <2>1 DEF ReqStage, SendFile, ForwardFile
    <2>3. PICK p : p = req[r]
      OBVIOUS
    <2>4. PICK q : q = [p EXCEPT !.pc = pc, !.new = id] /\ req' = [req EXCEPT ![r] = q]
      BY <1>3, <2>1, <2>3
    <2>5. /\ q \in DavReq /\ q.pc = pc /\ q.kind = p.kind /\ q.name = p.name /\ q.node = p.node
          /\ q.new = id /\ q.guard = p.guard /\ q.rows = p.rows
      <3>1. id \in 0..MaxDavIds
        BY <1>2, <1>3, DavNumbers
      <3> QED BY <1>0, <2>1, <2>3, <2>4, <3>1 DEF DavReq, DavPlaces
    <2>6. p \in DavReq /\ ReqBase(p)'
      BY <1>0, <1>5, <2>3, BaseAges
    <2>7. id <= lastId'
      BY <1>2, <1>3, DavNumbers
    <2>8. ReqBase(q)'
      BY <2>5, <2>6, <2>7 DEF ReqBase
    <2>9. ReqStage(q)'
      BY <1>5, <2>1, <2>2, <2>3, <2>5 DEF ReqStage
    <2> QED BY <1>2, <1>5, <1>6, <2>4, <2>5, <2>8, <2>9, DavFrame
  <1> QED BY <1>7, <1>8

LEMMA RenameKeeps ==
  ASSUME DavSound, NEW r \in DavRequests, EditName(r) \/ NameCopy(r)
  PROVE  DavSound'
  <1>0. req[r] \in DavReq /\ ReqBase(req[r]) /\ ReqStage(req[r]) /\ davRev' \in Nat
    BY DEF DavSound, EditName, NameCopy
  <1>1. PICK i \in Present, n \in DavNames : chatFiles' = [chatFiles EXCEPT ![i].name = n]
    BY DEF EditName, NameCopy, Found
  <1>2. UNCHANGED <<login, lastId, gone, index>> /\ index'.guard \in Nat /\ index.guard <= index'.guard
    BY DavNumbers DEF EditName, NameCopy
  <1>3. DavAges /\ FilesSound'
    BY <1>1, <1>2, RenameAges
  <1>4. IndexSound'
    BY <1>2, <1>3, IndexAges
  <1>5. PICK pc \in {"record", "delete", "invalidate"} :
          At(r, pc) /\ (pc = "delete" => req[r].pc = "named" /\ req[r].kind = "move")
    BY DEF EditName, NameCopy
  <1>6. PICK q : q = [req[r] EXCEPT !.pc = pc]
    OBVIOUS
  <1>7. /\ q \in DavReq /\ req' = [req EXCEPT ![r] = q] /\ q.pc = pc /\ ReqBase(q)
        /\ q.kind = req[r].kind /\ q.node = req[r].node /\ q.new = req[r].new
    <2>1. pc \in DavPlaces
      BY <1>5 DEF DavPlaces
    <2> QED BY <1>5, <1>6, <2>1, AtMoves
  <1>8. ReqStage(q)
    BY <1>0, <1>5, <1>7 DEF ReqStage
  <1>9. ReqBase(q)' /\ ReqStage(q)'
    BY <1>3, <1>7, <1>8, BaseAges, StageAges
  <1> QED BY <1>0, <1>3, <1>4, <1>7, <1>9, DavFrame

LEMMA RemoveKeeps ==
  ASSUME DavSound, NEW r \in DavRequests, RemoveOld(r)
  PROVE  DavSound'
  <1>0. req[r] \in DavReq /\ ReqBase(req[r]) /\ ReqStage(req[r]) /\ davRev' \in Nat /\ req[r].pc = "delete"
    BY DEF DavSound, RemoveOld
  <1>1. PICK i, kind, by : i = req[r].node.id /\ kind = req[r].kind /\ by = req[r].new
    OBVIOUS
  <1>2. /\ i \in DavIds /\ kind \in {"put", "delete", "move"} /\ by \in 0..MaxDavIds /\ by <= lastId
        /\ kind # "delete" => Reached(by)
    BY <1>0, <1>1, DavNumbers DEF ReqBase, ReqStage, DavIds, DavNode, NodeSound, DavReq
  <1>3. /\ chatFiles' = WithoutEntry(chatFiles, i)
        /\ gone' = IF i \in Present THEN [gone EXCEPT ![i] = [why |-> kind, by |-> by]] ELSE gone
    BY <1>1 DEF RemoveOld, Found
  <1>4. UNCHANGED <<login, lastId>> /\ index' = index /\ index'.guard \in Nat /\ index.guard <= index'.guard
    BY DavNumbers DEF RemoveOld
  <1>5. DavAges /\ FilesSound'
    BY <1>2, <1>3, <1>4, RemoveAges
  <1>6. IndexSound'
    BY <1>4, <1>5, IndexAges
  <1>7. PICK q : q = [req[r] EXCEPT !.pc = "record"]
    OBVIOUS
  <1>8. /\ q \in DavReq /\ req' = [req EXCEPT ![r] = q] /\ q.pc = "record" /\ ReqBase(q)
    <2>1. "record" \in DavPlaces
      BY DEF DavPlaces
    <2> QED BY <1>7, <2>1, AtMoves DEF RemoveOld
  <1>9. ReqStage(q)
    BY <1>8 DEF ReqStage
  <1>10. ReqBase(q)' /\ ReqStage(q)'
    BY <1>5, <1>8, <1>9, BaseAges, StageAges
  <1> QED BY <1>0, <1>5, <1>6, <1>8, <1>10, DavFrame

\* The clock, the account and other devices.
LEMMA DavWorldKeeps ==
  ASSUME DavSound,
         \/ IndexExpires \/ SwitchAccount \/ \E i \in DavIds, n \in DavNames : OtherDeviceRenames(i, n)
         \/ UNCHANGED davVars
  PROVE  DavSound'
  <1>0. req' = req /\ davRev' \in Nat /\ (index' = index \/ index' = [index EXCEPT !.fresh = FALSE])
    BY DEF DavSound, IndexExpires, SwitchAccount, OtherDeviceRenames, davVars
  <1>1. index'.guard \in Nat /\ index.guard <= index'.guard
    <2>1. index'.guard = index.guard
      BY <1>0 DEF DavSound, IndexSound
    <2> QED BY <2>1, DavNumbers
  <1>2. DavAges /\ FilesSound'
    <2>1. CASE IndexExpires \/ UNCHANGED davVars
      BY <1>1, <2>1, QuietAges DEF IndexExpires, davVars
    <2>2. CASE SwitchAccount
      <3>1. PICK f : \E n \in DavNames : /\ f = [login |-> login', name |-> n, place |-> "here"]
                                         /\ chatFiles' = Put1(chatFiles, lastId', f)
        BY <2>2 DEF SwitchAccount
      <3>2. login < MaxLogins /\ login' = login + 1 /\ lastId < MaxDavIds /\ lastId' = lastId + 1 /\ gone' = gone
        BY <2>2 DEF SwitchAccount
      <3>3. login <= login' /\ login' \in 1..MaxLogins /\ login' \in Nat
        BY <3>2, DavNumbers DEF DavSound
      <3>4. f \in DavFile
        BY <3>1, <3>3 DEF DavFile
      <3>5. PICK id : id = lastId'
        OBVIOUS
      <3> QED BY <1>1, <3>1, <3>2, <3>3, <3>4, <3>5, SendAges
    <2>3. CASE \E i \in DavIds, n \in DavNames : OtherDeviceRenames(i, n)
      <3>1. PICK i \in Present, n \in DavNames : chatFiles' = [chatFiles EXCEPT ![i].name = n]
        BY <2>3 DEF OtherDeviceRenames
      <3>2. UNCHANGED <<login, lastId, gone>>
        BY <2>3 DEF OtherDeviceRenames
      <3> QED BY <1>1, <3>1, <3>2, RenameAges
    <2> QED BY <2>1, <2>2, <2>3, <1>0
  <1>3. IndexSound'
    BY <1>0, <1>2, IndexAges
  <1> QED BY <1>0, <1>2, <1>3, DavStands

LEMMA DavStepKeeps ==
  ASSUME DavSound, [DavNext]_davVars
  PROVE  DavSound'
  <1>1. ASSUME NEW r \in DavRequests, DavStep(r) PROVE DavSound'
    BY <1>1, ArriveKeeps, ListKeeps, PublishKeeps, QuietKeeps, SendKeeps, RenameKeeps, RemoveKeeps DEF DavStep
  <1> QED BY <1>1, DavWorldKeeps DEF DavNext

LEMMA DavStarts == DavInit => DavSound
  <1> SUFFICES ASSUME DavInit PROVE DavSound
    OBVIOUS
  <1>1. lastId \in 0..MaxDavIds /\ MaxDavIds \in Nat /\ MaxLogins \in Nat \ {0}
    BY DavBoundsAssumption, FS_CardinalityType DEF DavBoundsAssumption, DavInit
  <1>2. login \in 1..MaxLogins /\ login = 1 /\ davRev \in Nat
    BY <1>1 DEF DavInit
  <1>3. Present = 1..lastId /\ chatFiles \in [1..lastId -> [login : {1}, name : DavNames, place : {"here"}]]
    BY DEF DavInit, Present
  <1>4. \A i \in Present : chatFiles[i] \in DavFile
    BY <1>3 DEF DavFile
  <1>5. gone \in [DavIds -> [why : {"no", "put", "delete", "move"}, by : 0..MaxDavIds]]
        /\ \A i \in DavIds : gone[i].why = "no"
    BY <1>1 DEF DavInit, StillThere
  <1>6. FilesSound
    BY <1>3, <1>4, <1>5 DEF FilesSound
  <1>7. NoRows \in [DavNames -> DavNode] /\ \A n \in DavNames : NoRows[n].id = 0 /\ NoRows[n].login = 0
    BY <1>1 DEF NoRows, None, DavNode
  <1>8. IndexSound
    BY <1>2, <1>7 DEF DavInit, IndexSound, NodeSound
  <1>9. PICK no : no = NoReq
    OBVIOUS
  <1>10. /\ no \in DavReq /\ no.guard = 0 /\ no.node.id = 0 /\ no.new = 0 /\ no.pc = "idle"
         /\ DOMAIN no.rows = {}
    BY <1>9, NoReqFits
  <1>11. req = [r \in DavRequests |-> no] /\ index.guard = 0
    BY <1>9 DEF DavInit
  <1>12. ReqBase(no) /\ ReqStage(no)
    BY <1>1, <1>10, <1>11 DEF ReqBase, ReqStage, NodeSound
  <1> QED BY <1>1, <1>2, <1>6, <1>8, <1>10, <1>11, <1>12 DEF DavSound

(* Whoever removes or renames a file has just checked that its session is  *)
(* the present one, and what it read in the index is of that session.      *)
LEMMA OwnFiles ==
  ASSUME DavSound, [DavNext]_davVars, NEW i \in Present, NEW r \in DavRequests,
         req[r].pc \in {"delete", "edit"}, req'[r].pc = "record", req[r].node.id = i
  PROVE  chatFiles[i].login = req[r].guard
  <1>1. ReqBase(req[r]) /\ ReqStage(req[r]) /\ req \in [DavRequests -> DavReq]
    BY DEF DavSound
  <1>2. RemoveOld(r) \/ EditName(r)
    <2>1. PICK o \in DavRequests : DavStep(o)
      BY DEF DavNext, davVars, IndexExpires, SwitchAccount, OtherDeviceRenames
    <2>2. o = r
      <3>1. CASE o # r
        BY <1>1, <2>1, <3>1 DEF DavStep, Arrive, Flush, OpenForWrite, ListFolder, PublishRows, IndexAtHand, ReadNode,
           FetchMedia, SendFile, SendLost, Announce, RemoveOld, RecordChange, Invalidate, EditName, ForwardFile,
           NameCopy, RequestFails, At, Answer
      <3> QED BY <3>1
    <2>3. ~RequestFails(r)
      <3>1. PICK no : no = NoReq
        OBVIOUS
      <3>2. no \in DavReq
        BY <3>1, NoReqFits
      <3>3. [no EXCEPT !.pc = "done"].pc = "done"
        BY <3>2 DEF DavReq
      <3> QED BY <1>1, <3>1, <3>3 DEF RequestFails, Answer
    <2> QED BY <2>1, <2>2, <2>3 DEF DavStep, Arrive, Flush, OpenForWrite, ListFolder, PublishRows, IndexAtHand, ReadNode,
           FetchMedia, Fetched, SendFile, SendLost, Announce, RecordChange, Invalidate, ForwardFile, NameCopy
  <1>3. req[r].guard = login
    BY <1>2 DEF RemoveOld, EditName, ClientValid, GuardValid
  <1>4. i # 0 /\ i = req[r].node.id
    BY <1>1 DEF ReqStage
  <1>5. /\ chatFiles[i].login = req[r].node.login /\ req[r].node.login <= login
        /\ req[r].guard <= req[r].node.login
    BY <1>1, <1>4 DEF ReqBase, NodeSound
  <1> QED BY <1>3, <1>5, DavNumbers

(* What replaces a file has reached Telegram before the file goes          *)
(* (upload_temp_file, copy_or_move_file), for any number of requests,      *)
(* names and sessions.                                                     *)
THEOREM DavInvariant == DavSpec => []DavInv
  <1>1. DavSpec => []DavSound
    BY DavStarts, DavStepKeeps, PTL DEF DavSpec
  <1>2. DavSound => DavInv
    <2> SUFFICES ASSUME DavSound PROVE DavInv
      OBVIOUS
    <2>1. ASSUME NEW r \in DavRequests
          PROVE  req[r].guard <= login /\ req[r].node.id \in 0..MaxDavIds /\ req[r].new \in 0..lastId
      <3>1. req[r].guard <= index.guard /\ index.guard <= login /\ req[r].new <= lastId
        BY DEF DavSound, ReqBase, IndexSound
      <3> QED BY <3>1, DavNumbers DEF DavNode
    <2>2. index.guard \in 0..login
      BY DavNumbers DEF DavSound, IndexSound
    <2>3. index.nodes \in [DavNames -> [id : 0..MaxDavIds, login : 0..login]]
      <3>1. ASSUME NEW n \in DavNames PROVE index.nodes[n] \in [id : 0..MaxDavIds, login : 0..login]
        <4>1. /\ index.nodes[n] \in DavNode /\ NodeSound(index.nodes[n])
              /\ index.nodes[n].login <= index.guard /\ index.guard <= login
          BY DEF DavSound, IndexSound
        <4>2. index.nodes[n].login <= login
          BY <2>2, <4>1, DavNumbers DEF NodeSound
        <4> QED BY <4>1, <4>2, DavNumbers DEF DavNode
      <3> QED BY <3>1 DEF DavSound, IndexSound
    <2>4. DavTypeOK
      BY <2>1, <2>2, <2>3 DEF DavSound, FilesSound, DavTypeOK
    <2>5. ReplacedFirst
      BY DEF DavSound, FilesSound, Reached, ReplacedFirst
    <2> QED BY <2>4, <2>5 DEF DavInv
  <1> QED BY <1>1, <1>2, PTL

(* A request changes only files of its own session                         *)
(* (TelegramDavFs::client, DavIndex::bind).                                *)
THEOREM OwnSessionKept == DavSpec => OwnSessionOnly
  <1>1. DavSpec => []DavSound
    BY DavStarts, DavStepKeeps, PTL DEF DavSpec
  <1> DEFINE Own == \A i \in Present : \A r \in DavRequests :
       (req[r].pc \in {"delete", "edit"} /\ req'[r].pc = "record" /\ req[r].node.id = i)
          => chatFiles[i].login = req[r].guard
  <1>2. DavSound /\ [DavNext]_davVars => [Own]_davVars
    BY OwnFiles
  <1> QED BY <1>1, <1>2, PTL DEF DavSpec, OwnSessionOnly

-----------------------------------------------------------------------------
(***************************************************************************)
(* Uploads from a URL.  Every chunk of the temporary file is in its place  *)
(* and of a version seen since the file was begun, and what the response   *)
(* still delivers goes on where the file ends; unless a leftover was       *)
(* continued, both are of one version.                                     *)
(***************************************************************************)
Chunk == [version : Nat, at : Nat]
Placed(s, since, until) ==
  s \in Seq(Chunk) /\ \A i \in 1..Len(s) : s[i].at = i /\ s[i].version \in since..until
TempSound == temp = NoFile \/ Placed(temp, tempSince, remoteVersion)

AdmittedHeld == admitted.down >= Held /\ admitted.up >= Held
SizedAdmitted == declared # 0 => admitted = [down |-> declared, up |-> declared]

\* The file is of version v, unless it continues a leftover.
FileOf(v) ==
  /\ v \in tempSince..remoteVersion
  /\ tempFrom # "leftover" => temp = Body(v, 0, Held)
  /\ tempFrom = "response" => v = sizedVersion

OpenSound ==
  /\ admitted = [down |-> declared, up |-> declared]
  /\ \E n \in Nat : stream = Body(sizedVersion, 0, n)
StreamSound ==
  temp # NoFile /\ SizedAdmitted /\ \E v, k \in Nat : FileOf(v) /\ stream = Body(v, Held, k)
FetchedUrl == temp # NoFile /\ \E v \in Nat : FileOf(v)
SizeSound == declared # 0 => Held = declared

Written == {"stream", "upload", "staged", "publish"}
UrlSound ==
  /\ UrlTypeOK /\ TempSound /\ admitted \in [down : Nat, up : Nat]
  /\ tempSince <= sizedVersion /\ sizedVersion <= remoteVersion
  /\ PostedAsFetched
  /\ url_pc = "open" => OpenSound
  /\ url_pc = "stream" => StreamSound
  /\ url_pc \in Written => AdmittedHeld
  /\ url_pc \in {"check", "upload", "staged", "publish"} => FetchedUrl
  /\ url_pc \in {"upload", "staged", "publish"} => SizeSound

LEMMA VersionsAre ==
  /\ Len(RemoteSizes) \in Nat \ {0} /\ Versions = 1..Len(RemoteSizes) /\ 1 \in Versions
  /\ \A v \in Versions : v \in Nat \ {0} /\ RemoteSizes[v] \in Nat \ {0}
  /\ MaxRedirects \in Nat /\ SendRetries \in Nat /\ SizeLimit \in Nat
  <1>1. RemoteSizes \in Seq(Nat \ {0}) /\ RemoteSizes # <<>>
        /\ MaxRedirects \in Nat /\ SendRetries \in Nat /\ SizeLimit \in Nat
    BY SizesAssumption, AttemptsAssumption DEF SizesAssumption, AttemptsAssumption
  <1>2. Len(RemoteSizes) \in Nat \ {0} /\ Versions = 1..Len(RemoteSizes)
    BY <1>1, EmptySeq DEF Versions
  <1>3. \A v \in 1..Len(RemoteSizes) : RemoteSizes[v] \in Nat \ {0}
    BY <1>1, ElementOfSeq
  <1> QED BY <1>1, <1>2, <1>3

LEMMA BodyFacts ==
  ASSUME NEW v \in Nat, NEW h \in Nat, NEW n \in Nat
  PROVE  /\ Body(v, h, n) \in Seq(Chunk) /\ Len(Body(v, h, n)) = n
         /\ \A i \in 1..n : Body(v, h, n)[i] = [version |-> v, at |-> h + i]
         /\ (n = 0) <=> (Body(v, h, n) = <<>>)
  <1>1. Body(v, h, n) \in [1..n -> Chunk]
    BY DEF Body, Chunk
  <1>2. Body(v, h, n) \in Seq(Chunk)
    BY <1>1, SeqDef
  <1>3. Len(Body(v, h, n)) = n
    BY <1>1, <1>2, LenProperties
  <1>4. \A i \in 1..n : Body(v, h, n)[i] = [version |-> v, at |-> h + i]
    BY DEF Body
  <1>5. (n = 0) <=> (Body(v, h, n) = <<>>)
    BY <1>2, <1>3, EmptySeq
  <1> QED BY <1>2, <1>3, <1>4, <1>5

LEMMA BodyGoesOn ==
  ASSUME NEW v \in Nat, NEW h \in Nat, NEW n \in Nat \ {0}
  PROVE  Head(Body(v, h, n)) = [version |-> v, at |-> h + 1] /\ Tail(Body(v, h, n)) = Body(v, h + 1, n - 1)
  <1>1. PICK b : b = Body(v, h, n)
    OBVIOUS
  <1>2. b \in Seq(Chunk) /\ Len(b) = n /\ b # <<>> /\ \A i \in 1..n : b[i] = [version |-> v, at |-> h + i]
    BY <1>1, BodyFacts
  <1>3. Head(b) = b[1] /\ Tail(b) \in Seq(Chunk) /\ Len(Tail(b)) = n - 1 /\ \A i \in 1..(n - 1) : Tail(b)[i] = b[i + 1]
    BY <1>2, HeadTailProperties
  <1>4. n - 1 \in Nat /\ h + 1 \in Nat /\ 1 \in 1..n
    OBVIOUS
  <1>5. PICK t : t = Body(v, h + 1, n - 1)
    OBVIOUS
  <1>6. t \in Seq(Chunk) /\ Len(t) = n - 1 /\ \A i \in 1..(n - 1) : t[i] = [version |-> v, at |-> (h + 1) + i]
    BY <1>4, <1>5, BodyFacts
  <1>7. \A i \in 1..(n - 1) : Tail(b)[i] = t[i]
    <2> SUFFICES ASSUME NEW i \in 1..(n - 1) PROVE Tail(b)[i] = t[i]
      OBVIOUS
    <2>1. i + 1 \in 1..n /\ h + (i + 1) = (h + 1) + i
      BY <1>4
    <2> QED BY <1>2, <1>3, <1>6, <2>1
  <1>8. Tail(b) = t
    BY <1>3, <1>6, <1>7, SeqEqual
  <1> QED BY <1>1, <1>2, <1>3, <1>4, <1>5, <1>8

LEMMA BodyAppends ==
  ASSUME NEW v \in Nat, NEW n \in Nat
  PROVE  Append(Body(v, 0, n), [version |-> v, at |-> n + 1]) = Body(v, 0, n + 1)
  <1>1. PICK b : b = Body(v, 0, n)
    OBVIOUS
  <1>0. n + 1 \in Nat /\ [version |-> v, at |-> n + 1] \in Chunk
    BY DEF Chunk
  <1>2. PICK c \in Chunk : c = [version |-> v, at |-> n + 1]
    BY <1>0
  <1>3. b \in Seq(Chunk) /\ Len(b) = n /\ \A i \in 1..n : b[i] = [version |-> v, at |-> 0 + i]
    BY <1>1, BodyFacts
  <1>4. PICK a : a = Append(b, c)
    OBVIOUS
  <1>5. a \in Seq(Chunk) /\ Len(a) = n + 1 /\ a[n + 1] = c /\ \A i \in 1..n : a[i] = b[i]
    BY <1>3, <1>4, AppendProperties
  <1>6. PICK d : d = Body(v, 0, n + 1)
    OBVIOUS
  <1>7. d \in Seq(Chunk) /\ Len(d) = n + 1 /\ \A i \in 1..(n + 1) : d[i] = [version |-> v, at |-> 0 + i]
    BY <1>0, <1>6, BodyFacts
  <1>8. \A i \in 1..(n + 1) : a[i] = d[i]
    <2> SUFFICES ASSUME NEW i \in 1..(n + 1) PROVE a[i] = d[i]
      OBVIOUS
    <2>1. CASE i = n + 1
      BY <1>2, <1>5, <1>7, <2>1
    <2>2. CASE i # n + 1
      <3>1. i \in 1..n
        BY <2>2
      <3> QED BY <1>3, <1>5, <1>7, <3>1
    <2> QED BY <2>1, <2>2
  <1>9. a = d
    BY <1>5, <1>7, <1>8, SeqEqual
  <1> QED BY <1>1, <1>2, <1>4, <1>6, <1>9

\* A file whose chunks are in their places is not the missing one.
LEMMA PlacedIsThere ==
  ASSUME NEW s, NEW since, NEW until, Placed(s, since, until)
  PROVE  s # NoFile /\ Len(s) \in Nat
  <1>1. Len(NoFile) = 1 /\ NoFile[1].at = 0
    BY DEF NoFile
  <1>2. ASSUME s = NoFile PROVE FALSE
    <2>1. Len(s) = 1 /\ \A i \in 1..Len(s) : s[i].at = i
      BY <1>1, <1>2 DEF Placed
    <2>2. s[1].at = 1
      BY <2>1
    <2> QED BY <1>1, <1>2, <2>2
  <1>3. Len(s) \in Nat
    BY DEF Placed
  <1> QED BY <1>2, <1>3

\* Of versions that are all one, it is a body of that version.
LEMMA PlacedIsBody ==
  ASSUME NEW s, NEW v \in Nat, Placed(s, v, v)
  PROVE  s = Body(v, 0, Len(s))
  <1>1. PICK n \in Nat : n = Len(s)
    BY DEF Placed
  <1>2. PICK b : b = Body(v, 0, n)
    OBVIOUS
  <1>3. b \in Seq(Chunk) /\ Len(b) = n /\ \A i \in 1..n : b[i] = [version |-> v, at |-> 0 + i]
    BY <1>2, BodyFacts
  <1>4. \A i \in 1..n : s[i] = b[i]
    <2> SUFFICES ASSUME NEW i \in 1..n PROVE s[i] = b[i]
      OBVIOUS
    <2>1. s[i] \in Chunk
      BY <1>1, ElementOfSeq DEF Placed
    <2>2. s[i].at = i /\ s[i].version = v
      BY <1>1 DEF Placed
    <2>3. s[i] = [version |-> v, at |-> i]
      BY <2>1, <2>2 DEF Chunk
    <2> QED BY <1>3, <2>3
  <1>5. s = b
    BY <1>1, <1>3, <1>4, SeqEqual DEF Placed
  <1> QED BY <1>1, <1>2, <1>5

LEMMA HeldFacts ==
  ASSUME TempSound
  PROVE  /\ Held \in Nat /\ (temp = NoFile => Held = 0)
         /\ temp # NoFile => Placed(temp, tempSince, remoteVersion) /\ Held = Len(temp)
  BY PlacedIsThere DEF TempSound, Held

LEMMA AgesAre ==
  ASSUME UrlSound
  PROVE  /\ {remoteVersion, sizedVersion, tempSince} \subseteq Versions
         /\ remoteVersion \in Nat \ {0} /\ sizedVersion \in Nat \ {0} /\ tempSince \in Nat \ {0} /\ declared \in Nat
         /\ tempSince <= sizedVersion /\ sizedVersion <= remoteVersion
         /\ declared \in {0, RemoteSizes[sizedVersion]}
  BY VersionsAre DEF UrlSound, UrlTypeOK

\* The attempt ends, whatever had come.
LEMMA EndKeeps ==
  ASSUME UrlSound, UrlEnds, cancel' \in BOOLEAN, PostedAsFetched'
  PROVE  UrlSound'
  <1>1. TempSound'
    BY DEF UrlEnds, TempSound
  <1>2. admitted' \in [down : Nat, up : Nat] /\ url_pc' = "idle"
    BY DEF UrlEnds, NoCharge
  <1>3. UrlTypeOK' /\ tempSince' <= sizedVersion' /\ sizedVersion' <= remoteVersion'
    BY DEF UrlEnds, UrlSound, UrlTypeOK, urlWorld, urlOrigin
  <1> QED BY <1>1, <1>2, <1>3 DEF UrlSound, Written

\* What is sent is what the file holds, all of it accounted for.
LEMMA PublicationKeeps ==
  ASSUME UrlSound, url_pc \in {"staged", "publish"}, urlPosted' \in {urlPosted, {Publication}}
  PROVE  PostedAsFetched'
  <1>0. temp # NoFile /\ SizeSound /\ TempSound /\ Placed(temp, tempSince, remoteVersion) /\ Held = Len(temp) /\ Held \in Nat
    BY HeldFacts DEF UrlSound, FetchedUrl
  <1>1. PICK v \in Nat : FileOf(v)
    BY DEF UrlSound, FetchedUrl
  <1>2. PICK m : m = Publication
    OBVIOUS
  <1>3. /\ m.content = temp /\ m.declared = declared /\ m.from = tempFrom /\ m.since = tempSince
        /\ m.until = remoteVersion
    BY <1>2 DEF Publication
  <1>4. \A i \in 1..Len(m.content) : m.content[i].at = i /\ m.content[i].version \in m.since..m.until
    BY <1>0, <1>3 DEF Placed
  <1>5. m.declared # 0 => Len(m.content) = m.declared
    BY <1>0, <1>3 DEF SizeSound
  <1>6. v \in Versions /\ v \in m.since..m.until
    BY <1>1, <1>3, AgesAre, VersionsAre DEF FileOf
  <1>7. m.from # "leftover" => m.content = Body(v, 0, Len(m.content))
    BY <1>0, <1>1, <1>3 DEF FileOf
  <1>8. ASSUME m.declared # 0, m.from = "response" \/ m.since = m.until
        PROVE  \E w \in m.since..m.until : m.content = WholeResource(w)
    <2>1. Len(temp) = RemoteSizes[sizedVersion]
      BY <1>0, <1>3, <1>5, <1>8, AgesAre
    <2>2. CASE m.from = "response"
      <3>1. v = sizedVersion /\ temp = Body(v, 0, Len(temp))
        BY <1>0, <1>1, <1>3, <2>2 DEF FileOf
      <3> QED BY <1>3, <1>6, <2>1, <3>1 DEF WholeResource
    <2>3. CASE m.since = m.until
      <3>1. tempSince = sizedVersion /\ remoteVersion = sizedVersion /\ sizedVersion \in m.since..m.until
        BY <1>3, <2>3, AgesAre
      <3>2. temp = Body(sizedVersion, 0, Len(temp))
        BY <1>0, <3>1, AgesAre, PlacedIsBody
      <3> QED BY <1>3, <2>1, <3>1, <3>2 DEF WholeResource
    <2> QED BY <1>8, <2>2, <2>3
  <1>9. PostedAsFetched
    BY DEF UrlSound
  <1>10. \A p \in urlPosted' : p \in urlPosted \/ p = m
    BY <1>2
  <1> QED BY <1>4, <1>5, <1>6, <1>7, <1>8, <1>9, <1>10 DEF PostedAsFetched

\* The file's own words stand while neither the file nor its history changes
\* and the resource only moves on.
LEMMA FileStands ==
  ASSUME UrlSound, UNCHANGED <<temp, sizedVersion, tempSince, tempFrom>>, remoteVersion' \in Versions,
         remoteVersion' >= remoteVersion
  PROVE  /\ TempSound' /\ Held' = Held /\ tempSince' <= sizedVersion' /\ sizedVersion' <= remoteVersion'
         /\ \A v \in Nat : FileOf(v) => FileOf(v)'
         /\ FetchedUrl => FetchedUrl'
  <1>1. remoteVersion' \in Nat
    BY VersionsAre
  <1>2. \A w : w \in tempSince..remoteVersion => w \in tempSince..remoteVersion'
    BY <1>1, AgesAre
  <1>3. TempSound' /\ Held' = Held
    BY <1>2 DEF UrlSound, TempSound, Placed, Held
  <1>4. \A v \in Nat : FileOf(v) => FileOf(v)'
    BY <1>2, <1>3 DEF FileOf
  <1> QED BY <1>1, <1>3, <1>4, AgesAre DEF FetchedUrl

\* Steps that write nothing, and those of the world.
LEMMA BeforeKeeps ==
  ASSUME UrlSound,
         \/ UploadFromUrl \/ Redirected \/ GetFails \/ CancelTransfer \/ OwnerSignsOut \/ RemoteChanges
         \/ UploadStream \/ SendAnswerLost \/ StreamEnds \/ UNCHANGED urlVars
  PROVE  UrlSound'
  <1>0. /\ UrlTypeOK /\ UNCHANGED <<temp, sizedVersion, tempSince, tempFrom, declared, ranges, stream, admitted>>
        /\ MaxRedirects \in Nat /\ SendRetries \in Nat
    BY VersionsAre
       DEF UrlSound, UploadFromUrl, Redirected, GetFails, CancelTransfer, OwnerSignsOut, RemoteChanges, UploadStream,
       SendAnswerLost, StreamEnds, urlVars, urlWorld, urlOrigin
  <1>1. remoteVersion' \in Versions /\ remoteVersion' >= remoteVersion
    BY AgesAre, VersionsAre
       DEF UploadFromUrl, Redirected, GetFails, CancelTransfer, OwnerSignsOut, RemoteChanges, UploadStream,
       SendAnswerLost, StreamEnds, urlVars, urlWorld, urlOrigin
  <1>2. /\ hops' \in 0..MaxRedirects /\ sends' \in 0..SendRetries + 1
        /\ url_pc' \in {"idle", "get", "open", "stream", "check", "upload", "staged", "publish"}
    BY <1>0 DEF UrlTypeOK, UploadFromUrl, Redirected, GetFails, CancelTransfer, OwnerSignsOut, RemoteChanges,
       UploadStream, SendAnswerLost, StreamEnds, urlVars, urlWorld, urlOrigin
  <1>3. cancel' \in BOOLEAN /\ owner_ok' \in BOOLEAN
    BY <1>0 DEF UrlTypeOK, UploadFromUrl, Redirected, GetFails, CancelTransfer, OwnerSignsOut, RemoteChanges,
       UploadStream, SendAnswerLost, StreamEnds, urlVars, urlWorld, urlOrigin
  <1>4. UrlTypeOK'
    BY <1>0, <1>1, <1>2, <1>3 DEF UrlTypeOK
  <1>5. PostedAsFetched'
    <2>1. CASE SendAnswerLost
      BY <2>1, PublicationKeeps DEF SendAnswerLost
    <2>2. CASE UploadFromUrl
      BY <2>2 DEF UploadFromUrl, PostedAsFetched
    <2>3. CASE Redirected \/ GetFails \/ CancelTransfer \/ OwnerSignsOut \/ RemoteChanges
               \/ UploadStream \/ StreamEnds \/ UNCHANGED urlVars
      <3>1. urlPosted' = urlPosted
        BY <2>3 DEF Redirected, GetFails, CancelTransfer, OwnerSignsOut, RemoteChanges, UploadStream,
           StreamEnds, urlVars
      <3> QED BY <3>1 DEF UrlSound, PostedAsFetched
    <2> QED BY <2>1, <2>2, <2>3
  <1>6. /\ TempSound' /\ Held' = Held /\ tempSince' <= sizedVersion' /\ sizedVersion' <= remoteVersion'
        /\ \A v \in Nat : FileOf(v) => FileOf(v)'
        /\ FetchedUrl => FetchedUrl'
    BY <1>0, <1>1, FileStands
  <1>7. /\ AdmittedHeld => AdmittedHeld'
        /\ OpenSound => OpenSound'
        /\ StreamSound => StreamSound'
        /\ StreamSound => FetchedUrl
        /\ SizeSound => SizeSound'
    BY <1>0, <1>6 DEF AdmittedHeld, OpenSound, StreamSound, SizedAdmitted, SizeSound, FetchedUrl
  <1>8. \/ url_pc' = url_pc \/ url_pc' \in {"idle", "get"} \/ (url_pc = "upload" /\ url_pc' = "publish")
        \/ (url_pc = "stream" /\ url_pc' = "check")
    BY DEF UploadFromUrl, Redirected, GetFails, CancelTransfer, OwnerSignsOut, RemoteChanges, UploadStream,
       SendAnswerLost, StreamEnds, urlVars
  <1>9. admitted' \in [down : Nat, up : Nat]
    BY <1>0 DEF UrlSound
  <1>10. /\ url_pc' = "open" => OpenSound'
         /\ url_pc' = "stream" => StreamSound'
         /\ url_pc' \in Written => AdmittedHeld'
         /\ url_pc' \in {"check", "upload", "staged", "publish"} => FetchedUrl'
         /\ url_pc' \in {"upload", "staged", "publish"} => SizeSound'
    BY <1>6, <1>7, <1>8 DEF UrlSound, Written
  <1> QED BY <1>4, <1>5, <1>6, <1>9, <1>10 DEF UrlSound

LEMMA CrashKeeps ==
  ASSUME UrlSound, UrlCrash
  PROVE  UrlSound'
  <1>1. /\ url_pc' = "idle" /\ cancel' = FALSE /\ admitted' = NoCharge /\ temp' \in {temp, NoFile}
        /\ UNCHANGED <<hops, declared, ranges, sends, urlPosted, remoteVersion, owner_ok, sizedVersion, tempSince, tempFrom>>
    BY DEF UrlCrash, urlWorld, urlOrigin
  <1>2. TempSound' /\ PostedAsFetched'
    BY <1>1 DEF UrlSound, TempSound, Placed, PostedAsFetched
  <1>3. UrlTypeOK' /\ tempSince' <= sizedVersion' /\ sizedVersion' <= remoteVersion'
    BY <1>1 DEF UrlSound, UrlTypeOK
  <1> QED BY <1>1, <1>2, <1>3 DEF UrlSound, Written, NoCharge

LEMMA AnsweredKeeps ==
  ASSUME UrlSound, NEW sized \in BOOLEAN, NEW accepts \in BOOLEAN, NEW n \in 0..RemoteSizes[remoteVersion],
         Answered(sized, accepts, n)
  PROVE  UrlSound'
  <1>0. /\ url_pc' = "open" /\ admitted' = [down |-> declared', up |-> declared'] /\ stream' = Body(remoteVersion, 0, n)
        /\ sizedVersion' = remoteVersion /\ ranges' = accepts
        /\ declared' = (IF sized THEN n ELSE 0) /\ (sized => n = RemoteSizes[remoteVersion])
        /\ UNCHANGED <<hops, temp, cancel, sends, urlPosted, remoteVersion, owner_ok, tempSince, tempFrom>>
    BY DEF Answered, urlWorld
  <1>1. remoteVersion \in Versions /\ RemoteSizes[remoteVersion] \in Nat /\ n \in Nat
        /\ tempSince <= remoteVersion /\ remoteVersion <= remoteVersion
    BY AgesAre, VersionsAre
  <1>2. declared' \in {0, RemoteSizes[sizedVersion']} /\ declared' \in Nat
    BY <1>0, <1>1
  <1>3. UrlTypeOK'
    BY <1>0, <1>1, <1>2 DEF UrlSound, UrlTypeOK
  <1>4. TempSound' /\ PostedAsFetched'
    BY <1>0 DEF UrlSound, TempSound, PostedAsFetched
  <1>5. OpenSound' /\ admitted' \in [down : Nat, up : Nat]
    BY <1>0, <1>1, <1>2 DEF OpenSound
  <1> QED BY <1>0, <1>1, <1>3, <1>4, <1>5 DEF UrlSound, Written

\* A new file, filled by the response at hand or by a second one.
LEMMA TempKeeps ==
  ASSUME UrlSound, CreateTemp \/ RestartTemp
  PROVE  UrlSound'
  <1>0. /\ url_pc = "open" /\ url_pc' = "stream" /\ temp' = <<>> /\ tempSince' = sizedVersion
        /\ UNCHANGED <<hops, declared, ranges, admitted, cancel, sends, urlPosted, remoteVersion, owner_ok, sizedVersion>>
    BY DEF CreateTemp, RestartTemp, urlWorld
  <1>1. PICK v \in Nat, n \in Nat : /\ stream' = Body(v, 0, n) /\ v \in {sizedVersion, remoteVersion}
                                    /\ tempFrom' \in {"response", "again"} /\ (tempFrom' = "response" => v = sizedVersion)
    <2>1. CASE CreateTemp
      <3>1. PICK n \in Nat : stream = Body(sizedVersion, 0, n)
        BY <1>0 DEF UrlSound, OpenSound
      <3> QED BY <2>1, <3>1, AgesAre DEF CreateTemp
    <2>2. CASE RestartTemp
      <3>1. PICK n \in 0..RemoteSizes[remoteVersion] : stream' = Body(remoteVersion, 0, n)
        BY <2>2 DEF RestartTemp
      <3>2. n \in Nat
        BY <3>1, AgesAre, VersionsAre
      <3> QED BY <2>2, <3>1, <3>2, AgesAre DEF RestartTemp
    <2> QED BY <2>1, <2>2
  <1>2. v \in tempSince'..remoteVersion'
    BY <1>0, <1>1, AgesAre
  <1>3. Placed(temp', tempSince', remoteVersion')
    BY <1>0, EmptySeq DEF Placed
  <1>4. temp' # NoFile /\ TempSound' /\ Held' = 0
    BY <1>0, <1>3, PlacedIsThere, EmptySeq DEF TempSound, Held
  <1>5. temp' = Body(v, 0, Held')
    BY <1>0, <1>1, <1>4, BodyFacts
  <1>6. FileOf(v)'
    BY <1>0, <1>1, <1>2, <1>5 DEF FileOf
  <1>7. admitted = [down |-> declared, up |-> declared] /\ declared \in Nat
    BY <1>0, AgesAre DEF UrlSound, OpenSound
  <1>8. StreamSound' /\ AdmittedHeld'
    BY <1>0, <1>1, <1>4, <1>6, <1>7 DEF StreamSound, SizedAdmitted, AdmittedHeld
  <1>9. UrlTypeOK' /\ tempSince' <= sizedVersion' /\ sizedVersion' <= remoteVersion'
    BY <1>0, <1>1, AgesAre DEF UrlSound, UrlTypeOK
  <1>10. PostedAsFetched' /\ admitted' \in [down : Nat, up : Nat]
    BY <1>0 DEF UrlSound, PostedAsFetched
  <1> QED BY <1>0, <1>4, <1>8, <1>9, <1>10 DEF UrlSound, Written

\* A leftover is continued, or taken as it is when its length is the declared.
LEMMA ContinueKeeps ==
  ASSUME UrlSound, ResumeTemp \/ AlreadyDownloaded
  PROVE  UrlSound'
  <1>0. /\ url_pc = "open" /\ url_pc' \in {"stream", "check"} /\ tempFrom' = "leftover"
        /\ UNCHANGED <<hops, declared, ranges, temp, admitted, cancel, sends, urlPosted, remoteVersion, owner_ok,
                       sizedVersion, tempSince>>
    BY DEF ResumeTemp, AlreadyDownloaded, urlWorld
  <1>1. TempSound /\ TempSound' /\ Held' = Held /\ Held \in Nat
    BY <1>0, HeldFacts DEF UrlSound, TempSound, Held
  <1>2. admitted = [down |-> declared, up |-> declared] /\ declared \in Nat /\ remoteVersion \in Nat
    BY <1>0, AgesAre DEF UrlSound, OpenSound
  <1>3. declared # 0 /\ temp # NoFile
    <2>1. CASE ResumeTemp
      BY <1>1, <1>2, <2>1 DEF ResumeTemp, ResumeFrom, NeedDownload
    <2>2. CASE AlreadyDownloaded
      BY <1>1, <1>2, <2>2 DEF AlreadyDownloaded, ResumeFrom, NeedDownload
    <2> QED BY <2>1, <2>2
  <1>4. \A v \in tempSince..remoteVersion : FileOf(v)'
    BY <1>0 DEF FileOf
  <1>5. remoteVersion \in tempSince..remoteVersion
    BY AgesAre
  <1>6. UrlTypeOK' /\ tempSince' <= sizedVersion' /\ sizedVersion' <= remoteVersion'
    BY <1>0, AgesAre DEF UrlSound, UrlTypeOK
  <1>7. PostedAsFetched' /\ admitted' \in [down : Nat, up : Nat]
    BY <1>0 DEF UrlSound, PostedAsFetched
  <1>8. CASE ResumeTemp
    <2>1. url_pc' = "stream" /\ ResumeFrom = Held /\ Held < declared
      <3>1. NeedDownload(ResumeFrom) /\ ResumeFrom > 0 /\ url_pc' = "stream"
        BY <1>8 DEF ResumeTemp
      <3> QED BY <1>1, <1>2, <1>3, <3>1 DEF NeedDownload, ResumeFrom
    <2>2. PICK n \in 0..RemoteSizes[remoteVersion] : stream' = Body(remoteVersion, Held, n)
      BY <1>8, <2>1 DEF ResumeTemp
    <2>3. n \in Nat
      BY <2>2, AgesAre, VersionsAre
    <2>4. StreamSound' /\ AdmittedHeld'
      BY <1>0, <1>1, <1>2, <1>3, <1>4, <1>5, <2>1, <2>2, <2>3 DEF StreamSound, SizedAdmitted, AdmittedHeld
    <2> QED BY <1>1, <1>6, <1>7, <2>1, <2>4 DEF UrlSound, Written
  <1>9. CASE AlreadyDownloaded
    <2>1. url_pc' = "check"
      BY <1>9 DEF AlreadyDownloaded
    <2>2. FetchedUrl'
      BY <1>0, <1>2, <1>3, <1>4, <1>5 DEF FetchedUrl
    <2> QED BY <1>1, <1>6, <1>7, <2>1, <2>2 DEF UrlSound, Written
  <1> QED BY <1>8, <1>9

\* One chunk more, of the version the response is of.
LEMMA WriteKeeps ==
  ASSUME UrlSound, WriteChunk
  PROVE  UrlSound'
  <1>0. /\ url_pc = "stream" /\ url_pc' = "stream" /\ stream # <<>> /\ GrowReservations
        /\ temp' = Append(temp, Head(stream)) /\ stream' = Tail(stream) /\ (declared # 0 => Held + 1 <= declared)
        /\ UNCHANGED <<hops, declared, ranges, cancel, sends, urlPosted, remoteVersion, owner_ok,
                       sizedVersion, tempSince, tempFrom>>
    BY DEF WriteChunk, ChunkFits, urlWorld, urlOrigin
  <1>1. temp # NoFile /\ SizedAdmitted /\ TempSound
    BY <1>0 DEF UrlSound, StreamSound
  <1>2. PICK v \in Nat, k \in Nat : FileOf(v) /\ stream = Body(v, Held, k)
    BY <1>0 DEF UrlSound, StreamSound
  <1>3. Placed(temp, tempSince, remoteVersion) /\ Held = Len(temp) /\ Held \in Nat
    BY <1>1, HeldFacts
  <1>4. PICK h \in Nat : h = Held
    BY <1>3
  <1>5. PICK c \in Chunk : c = [version |-> v, at |-> h + 1]
    <2>1. [version |-> v, at |-> h + 1] \in Chunk
      BY DEF Chunk
    <2> QED BY <2>1
  <1>6. k # 0 /\ Head(stream) = c /\ Tail(stream) = Body(v, h + 1, k - 1)
    <2>1. k # 0
      BY <1>0, <1>2, <1>4, BodyFacts
    <2> QED BY <1>2, <1>4, <1>5, <2>1, BodyGoesOn
  <1>7. PICK t : t = temp'
    OBVIOUS
  <1>8. temp \in Seq(Chunk) /\ Len(temp) = h /\ t = Append(temp, c)
    BY <1>0, <1>3, <1>4, <1>6, <1>7 DEF Placed
  <1>9. t \in Seq(Chunk) /\ Len(t) = h + 1 /\ t[h + 1] = c /\ \A i \in 1..h : t[i] = temp[i]
    BY <1>8, AppendProperties
  <1>10. Placed(t, tempSince, remoteVersion)
    <2> SUFFICES ASSUME NEW i \in 1..(h + 1) PROVE t[i].at = i /\ t[i].version \in tempSince..remoteVersion
      BY <1>9 DEF Placed
    <2>1. CASE i = h + 1
      BY <1>2, <1>5, <1>9, <2>1 DEF FileOf
    <2>2. CASE i # h + 1
      <3>1. i \in 1..h
        BY <2>2
      <3> QED BY <1>3, <1>8, <1>9, <3>1 DEF Placed
    <2> QED BY <2>1, <2>2
  <1>11. temp' # NoFile /\ TempSound' /\ Held' = h + 1
    BY <1>0, <1>7, <1>9, <1>10, PlacedIsThere DEF TempSound, Held
  <1>12. tempFrom # "leftover" => t = Body(v, 0, h + 1)
    <2>1. tempFrom # "leftover" => temp = Body(v, 0, h)
      BY <1>2, <1>4 DEF FileOf
    <2> QED BY <1>5, <1>8, <2>1, BodyAppends
  <1>13. FileOf(v)'
    BY <1>0, <1>2, <1>7, <1>11, <1>12 DEF FileOf
  <1>14. admitted' = IF declared = 0 THEN [down |-> h + 1, up |-> h + 1] ELSE admitted
    BY <1>0, <1>4 DEF GrowReservations
  <1>15. SizedAdmitted' /\ AdmittedHeld' /\ admitted' \in [down : Nat, up : Nat]
    <2>1. declared \in Nat /\ (declared # 0 => h + 1 <= declared /\ admitted = [down |-> declared, up |-> declared])
      BY <1>0, <1>1, <1>4, AgesAre DEF SizedAdmitted
    <2>2. CASE declared = 0
      BY <1>0, <1>11, <1>14, <2>2 DEF SizedAdmitted, AdmittedHeld
    <2>3. CASE declared # 0
      BY <1>0, <1>11, <1>14, <2>1, <2>3 DEF SizedAdmitted, AdmittedHeld
    <2> QED BY <2>2, <2>3
  <1>16. StreamSound'
    <2>1. stream' = Body(v, Held', k - 1) /\ k - 1 \in Nat
      BY <1>0, <1>6, <1>11
    <2> QED BY <1>11, <1>13, <1>15, <2>1 DEF StreamSound
  <1>17. UrlTypeOK' /\ tempSince' <= sizedVersion' /\ sizedVersion' <= remoteVersion'
    BY <1>0, AgesAre DEF UrlSound, UrlTypeOK
  <1>18. PostedAsFetched'
    BY <1>0 DEF UrlSound, PostedAsFetched
  <1> QED BY <1>0, <1>11, <1>15, <1>16, <1>17, <1>18 DEF UrlSound

\* The size is compared before anything is published.
LEMMA CheckKeeps ==
  ASSUME UrlSound, Checked
  PROVE  UrlSound'
  <1>0. /\ url_pc = "check" /\ url_pc' \in {"upload", "staged"} /\ admitted' = [down |-> Held, up |-> Held]
        /\ (declared # 0 => Held = declared)
        /\ UNCHANGED <<hops, declared, ranges, temp, stream, cancel, sends, urlPosted, remoteVersion, owner_ok,
                       sizedVersion, tempSince, tempFrom>>
    BY DEF Checked, SizeMatches, urlWorld, urlOrigin
  <1>1. remoteVersion' \in Versions /\ remoteVersion' >= remoteVersion
    BY <1>0, AgesAre
  <1>2. /\ TempSound' /\ Held' = Held /\ tempSince' <= sizedVersion' /\ sizedVersion' <= remoteVersion'
        /\ FetchedUrl => FetchedUrl'
    BY <1>0, <1>1, FileStands
  <1>3. Held \in Nat
    BY HeldFacts DEF UrlSound
  <1>4. UrlTypeOK' /\ PostedAsFetched'
    BY <1>0 DEF UrlSound, UrlTypeOK, PostedAsFetched
  <1>5. AdmittedHeld' /\ admitted' \in [down : Nat, up : Nat] /\ SizeSound'
    BY <1>0, <1>2, <1>3 DEF AdmittedHeld, SizeSound
  <1>6. FetchedUrl'
    BY <1>0, <1>2 DEF UrlSound
  <1> QED BY <1>0, <1>2, <1>4, <1>5, <1>6 DEF UrlSound

LEMMA UrlStep ==
  ASSUME UrlSound, [UrlNext]_urlVars
  PROVE  UrlSound'
  <1>1. CASE StreamFails \/ Cancelled \/ CheckFails \/ StagedUpload \/ UploadFails \/ SendAccepted \/ SendGivesUp
    <2>1. UrlEnds /\ cancel' \in BOOLEAN
      BY <1>1 DEF StreamFails, Cancelled, CheckFails, StagedUpload, UploadFails, SendAccepted, SendGivesUp,
         UrlSound, UrlTypeOK
    <2>2. urlPosted' = urlPosted \/ (url_pc \in {"staged", "publish"} /\ urlPosted' \in {urlPosted, {Publication}})
      BY <1>1 DEF StreamFails, Cancelled, CheckFails, StagedUpload, UploadFails, SendAccepted, SendGivesUp
    <2>3. urlPosted' = urlPosted => PostedAsFetched'
      BY DEF UrlSound, PostedAsFetched
    <2> QED BY <2>1, <2>2, <2>3, PublicationKeeps, EndKeeps
  <1>2. CASE \E sized, accepts \in BOOLEAN, n \in 0..RemoteSizes[remoteVersion] : Answered(sized, accepts, n)
    BY <1>2, AnsweredKeeps
  <1> QED BY <1>1, <1>2, BeforeKeeps, CrashKeeps, TempKeeps, ContinueKeeps, WriteKeeps, CheckKeeps DEF UrlNext

LEMMA UrlStarts == UrlInit => UrlSound
  <1> SUFFICES ASSUME UrlInit PROVE UrlSound
    OBVIOUS
  <1>1. UrlTypeOK /\ tempSince <= sizedVersion /\ sizedVersion <= remoteVersion
    <2>1. /\ url_pc = "idle" /\ declared = 0 /\ hops \in 0..MaxRedirects /\ sends \in 0..SendRetries + 1
          /\ remoteVersion = 1 /\ sizedVersion = 1 /\ tempSince = 1 /\ tempFrom = "response" /\ 1 \in Versions
      BY VersionsAre DEF UrlInit
    <2>2. cancel \in BOOLEAN /\ owner_ok \in BOOLEAN /\ ranges \in BOOLEAN
      BY DEF UrlInit
    <2> QED BY <2>1, <2>2 DEF UrlTypeOK
  <1>2. TempSound /\ admitted \in [down : Nat, up : Nat] /\ PostedAsFetched
    BY DEF UrlInit, TempSound, NoCharge, PostedAsFetched
  <1> QED BY <1>1, <1>2 DEF UrlInit, UrlSound, Written

(***************************************************************************)
(* Whatever a crash left behind, however the server answers and whenever   *)
(* the resource changes: what is published from a URL has every chunk in   *)
(* its place and the declared size, of versions that were there since the  *)
(* file was begun; of one version, unless it continues a leftover; and, if *)
(* the size was declared, whole when one response brought it or the        *)
(* resource did not change.  Both quotas had admitted it before it was     *)
(* written (cmd_upload_from_url_owned).                                    *)
(***************************************************************************)
THEOREM UrlInvariant == UrlSpec => []UrlInv
  <1>1. UrlSpec => []UrlSound
    BY UrlStarts, UrlStep, PTL DEF UrlSpec
  <1>2. UrlSound => UrlInv
    BY DEF UrlSound, UrlInv, WrittenIsAdmitted, AdmittedHeld, Written
  <1> QED BY <1>1, <1>2, PTL

-----------------------------------------------------------------------------
(***************************************************************************)
(* Offline packs.  A run is launched only into an empty JOBS, and its      *)
(* launcher has the entry until the run does; what a run has fetched is in *)
(* the directory until the pack expires or is being removed.               *)
(***************************************************************************)
FileStatus == {"none", "pending", "downloading", "ready", "error", "cancelled", "unsupported", "expired"}
PackStatus == {"none", "paused", "queued", "running", "waiting", "ready", "error", "cancelled", "expired"}
PackRecord == [exists : BOOLEAN, status : PackStatus, auto : BOOLEAN, run : 0..MaxRuns,
               files : [PackFiles -> FileStatus]]
WithFile == {"gate", "fetch", "settle", "drop", "finish"}
RunPlaces == {"none", "ended", "look", "conclude", "leave", "fail"} \cup WithFile
RunRecord == [pc : RunPlaces, file : 0..PackSize, got : FetchEnds \cup {"none"}, guard : Nat]
CallPlaces == {"none", "signal", "wait", "update", "launch", "prepare", "clear", "forget"}
CallRecord == [pc : CallPlaces, kind : Kinds \cup {"none"}, file : 0..PackSize, guard : Nat, run : 0..MaxRuns]

PackTyped ==
  /\ PackTypeOK /\ offlinePack \in PackRecord /\ expired \in BOOLEAN /\ torn \in BOOLEAN
  /\ packRun \in [Runs -> RunRecord] /\ call \in [Callers -> CallRecord]
  /\ \A r \in Runs : packRun[r].pc \in WithFile => packRun[r].file \in PackFiles
  /\ offlinePack.status = "expired" => expired

Active(r) == packRun[r].pc \notin {"none", "ended"}

LaunchSound ==
  /\ \A c \in Callers : call[c].pc = "prepare" =>
       call[c].run \in Runs /\ packJob = call[c].run /\ packRun[call[c].run].pc = "none"
  /\ \A c \in Callers : call[c].pc # "prepare" => call[c].run = 0
  /\ \A c, d \in Callers : call[c].run = call[d].run /\ call[c].run # 0 => c = d

FetchedSound ==
  \A r \in Runs : packRun[r].pc \in {"settle", "finish"} /\ packRun[r].got = "whole" =>
    expired \/ torn \/ packRun[r].file \in copies

PackSound == PackTyped /\ OneRun /\ LaunchSound /\ FetchedSound /\ ReadyIsComplete /\ ReadyNotDropped

(* Numbers that are none. *)
LEMMA PackNumbers ==
  /\ 0 \notin Runs /\ Runs \subseteq 0..MaxRuns /\ PackFiles \subseteq 0..PackSize
  /\ 0 \in 0..MaxRuns /\ 0 \in 0..PackSize /\ 1 \in Runs
  BY PackAssumption DEF PackAssumption, Runs, PackFiles

LEMMA RecordsTyped ==
  /\ NoPackRun \in RunRecord /\ NoCall \in CallRecord /\ NoPack \in PackRecord
  /\ NoPackRun.pc = "none" /\ NoCall.pc = "none" /\ NoCall.run = 0 /\ NoPackRun.got = "none"
  BY PackNumbers DEF NoPackRun, NoCall, NoPack, RunRecord, CallRecord, PackRecord, RunPlaces, CallPlaces,
     PackStatus, FileStatus

(***************************************************************************)
(* What a step does to the record.                                         *)
(***************************************************************************)
(* Only maintain and the end of a fetch report a file as ready. *)
NoneReady == \A f \in PackFiles : offlinePack'.files[f] = "ready" => offlinePack.files[f] = "ready"

LEMMA ReconcileMoves ==
  ASSUME PackTyped, Reconcile
  PROVE  /\ offlinePack' \in PackRecord /\ offlinePack'.exists = offlinePack.exists
         /\ offlinePack'.status # "expired"
         /\ \A f \in PackFiles :
              /\ offlinePack'.files[f] = "ready" => f \in copies
              /\ packJob # 0 /\ offlinePack'.files[f] = "ready" => offlinePack.files[f] = "ready"
              /\ offlinePack.files[f] = "cancelled" => offlinePack'.files[f] = "cancelled"
         /\ parts' \subseteq Runs /\ copies' = copies /\ stopping' = stopping
  <1>1. PICK files : files = [f \in PackFiles |-> Reconciled(f)]
    OBVIOUS
  <1>2. \A f \in PackFiles : Reconciled(f) \in FileStatus
    BY DEF PackTyped, PackRecord, Reconciled, FileStatus
  <1>3. files \in [PackFiles -> FileStatus]
    BY <1>1, <1>2
  <1>4. PICK left : left = (NobodyRuns /\ (offlinePack.run # 0 \/ offlinePack.status \in {"running", "waiting"}))
    OBVIOUS
  <1>5. PICK status : status = IF ~left THEN offlinePack.status ELSE IF offlinePack.auto THEN "queued" ELSE "paused"
    OBVIOUS
  <1>6. PICK done : done = (NobodyRuns /\ AllReady(files) /\ status # "ready")
    OBVIOUS
  <1>7. PICK run : run = IF left THEN 0 ELSE offlinePack.run
    OBVIOUS
  <1>8. PICK auto : auto = (offlinePack.auto /\ ~done)
    OBVIOUS
  <1>9. PICK st : st = IF done THEN "ready"
                       ELSE IF NobodyRuns /\ status = "ready" /\ ~AllReady(files) THEN "paused" ELSE status
    OBVIOUS
  <1>10. offlinePack' = [offlinePack EXCEPT !.files = files, !.run = run, !.auto = auto, !.status = st]
    BY <1>1, <1>4, <1>5, <1>6, <1>7, <1>8, <1>9 DEF Reconcile, Maintained
  <1>11. status \in PackStatus \ {"expired"}
    BY <1>5 DEF PackTyped, PackRecord, PackStatus, Reconcile, IsExpired
  <1>12. st \in PackStatus \ {"expired"}
    BY <1>9, <1>11 DEF PackStatus
  <1>13. run \in 0..MaxRuns
    BY <1>7, PackNumbers DEF PackTyped, PackRecord
  <1>14. auto \in BOOLEAN
    BY <1>8
  <1> DEFINE half == [offlinePack EXCEPT !.files = files, !.run = run]
  <1>15. half \in PackRecord /\ half.files = files /\ half.exists = offlinePack.exists
    BY <1>3, <1>13 DEF PackTyped, PackRecord
  <1>16. offlinePack' = [half EXCEPT !.auto = auto, !.status = st]
    BY <1>10 DEF PackTyped, PackRecord
  <1> HIDE DEF half
  <1>17. /\ offlinePack' \in PackRecord /\ offlinePack'.files = files /\ offlinePack'.exists = offlinePack.exists
         /\ offlinePack'.status = st
    BY <1>12, <1>14, <1>15, <1>16 DEF PackRecord
  <1>18. \A f \in PackFiles :
              /\ Reconciled(f) = "ready" => f \in copies
              /\ packJob # 0 /\ Reconciled(f) = "ready" => offlinePack.files[f] = "ready"
              /\ offlinePack.files[f] = "cancelled" => Reconciled(f) = "cancelled"
    BY DEF Reconciled, Complete, NobodyRuns
  <1>19. parts' \subseteq Runs /\ copies' = copies /\ stopping' = stopping
    BY DEF Reconcile, PackTyped, PackTypeOK
  <1> QED BY <1>1, <1>12, <1>17, <1>18, <1>19

LEMMA RemoveMoves ==
  ASSUME PackTyped, RemoveExpired \/ RemoveExpiredFails
  PROVE  /\ offlinePack' \in PackRecord /\ expired
         /\ offlinePack' = offlinePack \/ offlinePack'.status = "expired"
         /\ NoneReady
         /\ parts' \subseteq Runs /\ copies' \subseteq PackFiles /\ stopping' \subseteq Runs
  <1>1. expired
    BY DEF RemoveExpired, RemoveExpiredFails, IsExpired, PackTyped
  <1>2. packJob \in Runs \cup {0}
    BY PackAssumption DEF PackAssumption, PackTyped, PackTypeOK, Runs
  <1>3. parts' \subseteq Runs /\ copies' \subseteq PackFiles /\ stopping' \subseteq Runs
    BY <1>2 DEF RemoveExpired, RemoveExpiredFails, PackTyped, PackTypeOK
  <1>4. CASE RemoveExpired
    <2>1. PICK files : files = [f \in PackFiles |-> "expired"]
      OBVIOUS
    <2>2. offlinePack' = [offlinePack EXCEPT !.status = "expired", !.auto = FALSE, !.run = 0, !.files = files]
      BY <1>4, <2>1 DEF RemoveExpired, Expired
    <2> DEFINE half == [offlinePack EXCEPT !.status = "expired", !.auto = FALSE]
    <2>3. half \in PackRecord /\ half.status = "expired"
      BY DEF PackTyped, PackRecord, PackStatus
    <2>4. offlinePack' = [half EXCEPT !.run = 0, !.files = files]
      BY <2>2 DEF PackTyped, PackRecord
    <2> HIDE DEF half
    <2>5. files \in [PackFiles -> FileStatus]
      BY <2>1 DEF FileStatus
    <2>6. offlinePack' \in PackRecord /\ offlinePack'.status = "expired" /\ offlinePack'.files = files
      BY <2>3, <2>4, <2>5, PackNumbers DEF PackRecord
    <2>7. NoneReady
      BY <2>1, <2>6 DEF NoneReady
    <2> QED BY <1>1, <1>3, <2>6, <2>7
  <1>5. CASE RemoveExpiredFails
    <2>1. offlinePack' = offlinePack
      BY <1>5 DEF RemoveExpiredFails
    <2> QED BY <1>1, <1>3, <2>1 DEF NoneReady, PackTyped
  <1> QED BY <1>4, <1>5

LEMMA UpdateMoves ==
  ASSUME PackTyped, NEW c \in Callers, offlinePack' = UpdateAction(offlinePack, call[c].kind, call[c].file)
  PROVE  /\ offlinePack' \in PackRecord /\ offlinePack'.exists = offlinePack.exists
         /\ NoneReady
         /\ offlinePack'.status = offlinePack.status \/ offlinePack'.status \in {"paused", "cancelled"}
         /\ call[c].kind \notin {"start", "retryFile"} =>
              \A f \in PackFiles : offlinePack.files[f] = "cancelled" => offlinePack'.files[f] = "cancelled"
  <1>1. CASE call[c].kind \in OfFile
    <2>1. PICK k, i, s : k = call[c].kind /\ i = call[c].file /\ s = FileAsked(k, offlinePack.files[i])
      OBVIOUS
    <2>2. offlinePack' = [offlinePack EXCEPT !.files[call[c].file] =
                            FileAsked(call[c].kind, offlinePack.files[call[c].file])]
      BY <1>1 DEF UpdateAction, OfFile
    <2>3. i \in PackFiles => s \in FileStatus /\ (s = "ready" => offlinePack.files[i] = "ready")
                             /\ (k = "cancelFile" /\ offlinePack.files[i] = "cancelled" => s = "cancelled")
      BY <2>1 DEF FileAsked, FileStatus, PackTyped, PackRecord
    <2>4. PICK files : files = [offlinePack.files EXCEPT ![i] = s]
      OBVIOUS
    <2>5. offlinePack' = [offlinePack EXCEPT !.files = files]
      BY <2>1, <2>2, <2>4 DEF PackTyped, PackRecord
    <2>6. files \in [PackFiles -> FileStatus]
      BY <2>3, <2>4 DEF PackTyped, PackRecord
    <2>7. offlinePack' \in PackRecord /\ offlinePack'.exists = offlinePack.exists /\ offlinePack'.status = offlinePack.status
          /\ offlinePack'.files = files
      BY <2>5, <2>6 DEF PackTyped, PackRecord
    <2>8. \A f \in PackFiles : files[f] = IF f = i THEN s ELSE offlinePack.files[f]
      BY <2>4 DEF PackTyped, PackRecord
    <2>9. k = "cancelFile" \/ k = "retryFile"
      BY <1>1, <2>1 DEF OfFile
    <2>10. NoneReady
      BY <2>3, <2>7, <2>8 DEF NoneReady
    <2> QED BY <2>1, <2>3, <2>7, <2>8, <2>9, <2>10
  <1>2. CASE call[c].kind = "start"
    <2>1. PICK files : files = [g \in PackFiles |-> IF offlinePack.files[g] \in {"error", "cancelled", "downloading"}
                                                    THEN "pending" ELSE offlinePack.files[g]]
      OBVIOUS
    <2>2. offlinePack' = [offlinePack EXCEPT !.files = files]
      BY <1>2, <2>1 DEF UpdateAction, OfFile
    <2>3. files \in [PackFiles -> FileStatus]
      BY <2>1 DEF PackTyped, PackRecord, FileStatus
    <2>4. offlinePack' \in PackRecord /\ offlinePack'.exists = offlinePack.exists /\ offlinePack'.status = offlinePack.status
          /\ offlinePack'.files = files
      BY <2>2, <2>3 DEF PackTyped, PackRecord
    <2> QED BY <1>2, <2>1, <2>4 DEF NoneReady
  <1>3. CASE call[c].kind \notin OfFile \cup {"start"}
    <2>1. PICK files : files = [g \in PackFiles |-> IF offlinePack.files[g] = "downloading" THEN "pending"
                                                    ELSE offlinePack.files[g]]
      OBVIOUS
    <2>2. PICK st : st = IF call[c].kind = "cancel" THEN "cancelled" ELSE "paused"
      OBVIOUS
    <2>3. offlinePack' = [offlinePack EXCEPT !.run = 0, !.auto = FALSE, !.status = st, !.files = files]
      BY <1>3, <2>1, <2>2 DEF UpdateAction
    <2>4. files \in [PackFiles -> FileStatus]
      BY <2>1 DEF PackTyped, PackRecord, FileStatus
    <2> DEFINE half == [offlinePack EXCEPT !.run = 0, !.auto = FALSE]
    <2>5. half \in PackRecord /\ half.exists = offlinePack.exists
      BY PackNumbers DEF PackTyped, PackRecord
    <2>6. offlinePack' = [half EXCEPT !.status = st, !.files = files]
      BY <2>3 DEF PackTyped, PackRecord
    <2>7. st \in PackStatus /\ st \in {"paused", "cancelled"}
      BY <2>2 DEF PackStatus
    <2> HIDE DEF half
    <2>8. offlinePack' \in PackRecord /\ offlinePack'.exists = offlinePack.exists /\ offlinePack'.status = st
          /\ offlinePack'.files = files
      BY <2>4, <2>5, <2>6, <2>7 DEF PackRecord
    <2> QED BY <2>1, <2>7, <2>8 DEF NoneReady
  <1> QED BY <1>1, <1>2, <1>3

(***************************************************************************)
(* The run.                                                                *)
(***************************************************************************)
LEMMA RunGoesTo ==
  ASSUME PackTyped, NEW r \in Runs, NEW pc \in {"look", "leave", "fail"} \cup WithFile, RunGoes(r, pc),
         pc \in WithFile => packRun[r].pc \in WithFile
  PROVE  /\ packRun' \in [Runs -> RunRecord] /\ packRun'[r].pc = pc
         /\ \A o \in Runs \ {r} : packRun'[o] = packRun[o]
         /\ pc \in WithFile => /\ packRun'[r].file = packRun[r].file /\ packRun'[r].got = packRun[r].got
                               /\ packRun'[r].file \in PackFiles
         /\ packRun'[r].guard = packRun[r].guard
  <1>0. packRun[r] \in RunRecord /\ (packRun[r].pc \in WithFile => packRun[r].file \in PackFiles)
    BY DEF PackTyped
  <1>1. CASE pc \in {"look", "leave", "fail"}
    <2>1. PICK q : q = [NoPackRun EXCEPT !.pc = pc, !.guard = packRun[r].guard]
      OBVIOUS
    <2>2. q \in RunRecord /\ q.pc = pc /\ q.guard = packRun[r].guard
      BY <1>0, <1>1, <2>1, PackNumbers DEF RunRecord, RunPlaces, NoPackRun
    <2>3. packRun' = [packRun EXCEPT ![r] = q]
      BY <1>1, <2>1 DEF RunGoes
    <2> QED BY <1>1, <2>2, <2>3 DEF PackTyped, WithFile
  <1>2. CASE pc \in WithFile
    <2>1. PICK q : q = [packRun[r] EXCEPT !.pc = pc]
      OBVIOUS
    <2>2. q \in RunRecord /\ q.pc = pc /\ q.guard = packRun[r].guard /\ q.file = packRun[r].file /\ q.got = packRun[r].got
      BY <1>0, <1>2, <2>1 DEF RunRecord, RunPlaces
    <2>3. pc \notin {"look", "leave", "fail"}
      BY <1>2 DEF WithFile
    <2>4. packRun' = [packRun EXCEPT ![r] = q]
      BY <2>1, <2>3 DEF RunGoes
    <2> QED BY <1>0, <1>2, <2>2, <2>4 DEF PackTyped
  <1> QED BY <1>1, <1>2

(* What is complete stays, while nothing new is reported. *)
LEMMA ReadyStays ==
  ASSUME PackSound, PackTyped', NoneReady, offlinePack'.exists => offlinePack.exists,
         copies \subseteq copies', expired' = expired, torn' = torn
  PROVE  ReadyIsComplete'
  BY DEF PackSound, PackTyped, NoneReady, ReadyIsComplete, IsExpired

LEMMA ExpiredExcuses ==
  ASSUME PackTyped', expired' \/ torn' \/ ~offlinePack'.exists
  PROVE  ReadyIsComplete'
  BY DEF PackTyped, ReadyIsComplete, IsExpired

\* One run moves; the others are not running.
LEMMA RunKeeps ==
  ASSUME PackSound, NEW r \in Runs, Active(r),
         packRun' \in [Runs -> RunRecord], \A o \in Runs \ {r} : packRun'[o] = packRun[o],
         packRun'[r].pc # "none", packRun'[r].pc \in WithFile => packRun'[r].file \in PackFiles,
         UNCHANGED <<call, expired, packGuard, packEvents, torn>>,
         packJob' = packJob \/ (packJob' = 0 /\ packRun'[r].pc = "ended"),
         offlinePack' \in PackRecord, offlinePack'.status = "expired" => expired,
         copies' \subseteq PackFiles, parts' \subseteq Runs, stopping' \subseteq Runs,
         packRun'[r].pc \in {"settle", "finish"} /\ packRun'[r].got = "whole" =>
           expired \/ torn \/ packRun'[r].file \in copies',
         packRun'[r].pc = "drop" => offlinePack'.files[packRun'[r].file] # "ready"
  PROVE  PackTyped' /\ (ReadyIsComplete' => PackSound')
  <1>1. packJob = r /\ r # 0 /\ \A o \in Runs \ {r} : packRun[o].pc \in {"none", "ended"}
    BY PackNumbers DEF PackSound, OneRun, Active
  <1>2. PackTypeOK'
    BY PackNumbers DEF PackSound, PackTyped, PackTypeOK, PackRecord, FileStatus
  <1>3. PackTyped'
    <2>1. expired' \in BOOLEAN /\ torn' \in BOOLEAN
      BY DEF PackSound, PackTyped
    <2>2. \A o \in Runs : packRun'[o].pc \in WithFile => packRun'[o].file \in PackFiles
      BY <1>1 DEF WithFile
    <2> QED BY <1>2, <2>1, <2>2 DEF PackSound, PackTyped
  <1>4. OneRun'
    BY <1>1 DEF OneRun
  <1>5. LaunchSound'
    <2>1. \A c \in Callers : call[c].pc # "prepare"
      BY <1>1 DEF PackSound, LaunchSound, Active
    <2> QED BY <2>1 DEF PackSound, LaunchSound
  <1>6. FetchedSound'
    BY <1>1 DEF FetchedSound
  <1>7. ReadyNotDropped'
    BY <1>1 DEF ReadyNotDropped
  <1> QED BY <1>3, <1>4, <1>5, <1>6, <1>7 DEF PackSound

\* A step of the run that only goes on, and may change the record.
LEMMA RunGoesOn ==
  ASSUME PackSound, NEW r \in Runs, Active(r), NEW pc \in {"look", "leave", "fail"} \cup WithFile, RunGoes(r, pc),
         pc \in WithFile => packRun[r].pc \in WithFile,
         UNCHANGED <<packJob, call, copies, expired, packGuard, packEvents, torn>>,
         parts' \subseteq Runs, stopping' \subseteq Runs,
         offlinePack' \in PackRecord, offlinePack'.exists = offlinePack.exists, NoneReady,
         offlinePack'.status = "expired" => expired,
         pc \in {"settle", "finish"} => packRun[r].pc \in {"settle", "finish"},
         pc = "drop" => offlinePack'.files[packRun[r].file] # "ready"
  PROVE  PackSound'
  <1>0. PackTyped
    BY DEF PackSound
  <1>1. /\ packRun' \in [Runs -> RunRecord] /\ packRun'[r].pc = pc
        /\ \A o \in Runs \ {r} : packRun'[o] = packRun[o]
        /\ pc \in WithFile => /\ packRun'[r].file = packRun[r].file /\ packRun'[r].got = packRun[r].got
                              /\ packRun'[r].file \in PackFiles
    BY <1>0, RunGoesTo
  <1>2. copies' \subseteq PackFiles /\ pc # "none"
    BY DEF PackSound, PackTyped, PackTypeOK, WithFile
  <1>3. packRun'[r].pc \in {"settle", "finish"} /\ packRun'[r].got = "whole" =>
          expired \/ torn \/ packRun'[r].file \in copies'
    BY <1>1 DEF PackSound, FetchedSound, WithFile
  <1>4. packRun'[r].pc = "drop" => offlinePack'.files[packRun'[r].file] # "ready"
    BY <1>1 DEF WithFile
  <1>5. PackTyped' /\ (ReadyIsComplete' => PackSound')
    BY <1>1, <1>2, <1>3, <1>4, RunKeeps
  <1> QED BY <1>5, ReadyStays

\* A run that finds the pack expired.
LEMMA RunExpiring ==
  ASSUME PackSound, NEW r \in Runs, Active(r), RunExpires(r),
         UNCHANGED <<packJob, call, expired, packGuard, packEvents, torn>>
  PROVE  PackSound'
  <1>0. PackTyped
    BY DEF PackSound
  <1>1. PICK pc \in {"leave", "fail"} : RunGoes(r, pc) /\ (RemoveExpired \/ RemoveExpiredFails)
    BY DEF RunExpires
  <1>2. /\ packRun' \in [Runs -> RunRecord] /\ packRun'[r].pc = pc
        /\ \A o \in Runs \ {r} : packRun'[o] = packRun[o]
    BY <1>0, <1>1, RunGoesTo DEF WithFile
  <1>3. /\ offlinePack' \in PackRecord /\ expired
        /\ parts' \subseteq Runs /\ copies' \subseteq PackFiles /\ stopping' \subseteq Runs
    BY <1>0, <1>1, RemoveMoves
  <1>4. PackTyped' /\ (ReadyIsComplete' => PackSound')
    BY <1>1, <1>2, <1>3, RunKeeps DEF WithFile
  <1> QED BY <1>3, <1>4, ExpiredExcuses

\* The record after its run was taken away.
LEMMA RunSet ==
  ASSUME PackTyped, NEW st \in PackStatus, NEW p,
         p = [offlinePack EXCEPT !.status = st, !.run = 0, !.auto = FALSE]
  PROVE  p \in PackRecord /\ p.exists = offlinePack.exists /\ p.status = st /\ p.files = offlinePack.files
  <1>1. PICK half : half = [offlinePack EXCEPT !.status = st, !.run = 0]
    OBVIOUS
  <1>2. half \in PackRecord /\ half.exists = offlinePack.exists /\ half.files = offlinePack.files /\ half.status = st
    BY <1>1, PackNumbers DEF PackTyped, PackRecord
  <1>3. p = [half EXCEPT !.auto = FALSE]
    BY <1>1 DEF PackTyped, PackRecord
  <1> QED BY <1>2, <1>3 DEF PackRecord

\* The first of the files that are left.
LEMMA LeastWanted ==
  ASSUME NEW S \in SUBSET Nat, NEW k \in S
  PROVE  \E f \in S : \A g \in S : f <= g
  <1>1. PICK n \in S : \A y \in S : ~(<<y, n>> \in OpToRel(<, Nat))
    <2>1. IsWellFoundedOn(OpToRel(<, Nat), Nat)
      BY NatLessThanWellFounded
    <2> QED BY <2>1, WFMin
  <1>2. \A y \in S : ~(y < n)
    BY <1>1 DEF OpToRel
  <1> QED BY <1>2

LEMMA RunStepKeeps ==
  ASSUME PackSound, NEW r \in Runs, RunStep(r)
  PROVE  PackSound'
  <1>0. PackTyped /\ packRun[r] \in RunRecord /\ copies \subseteq PackFiles /\ parts \subseteq Runs /\ stopping \subseteq Runs
        /\ offlinePack \in PackRecord
    BY DEF PackSound, PackTyped, PackTypeOK
  <1>a. Active(r)
    BY DEF Active, RunStep, RunLooks, RunConcludes, RunWaits, RunFetches, RunFetched, RunSettles, RunDrops,
       RunFinishes, RunRefused, RunFails, RunLeaves
  <1>1. CASE RunLooks(r)
    <2>1. CASE \/ RunGoes(r, "leave") /\ UNCHANGED <<offlinePack, copies, parts, stopping>>
               \/ RunGoes(r, "fail") /\ UNCHANGED <<offlinePack, copies, parts, stopping>>
      <3>1. offlinePack'.status = "expired" => expired
        BY <2>1 DEF PackSound, PackTyped
      <3> QED BY <1>0, <1>1, <1>a, <2>1, <3>1, RunGoesOn DEF RunLooks, NoneReady, WithFile
    <2>2. CASE RunExpires(r)
      BY <1>1, <1>a, <2>2, RunExpiring DEF RunLooks
    <2>3. CASE /\ UNCHANGED <<offlinePack, copies, parts, stopping>>
               /\ packRun' = [packRun EXCEPT
                           ![r].pc = IF FilesWanted = {} THEN "conclude" ELSE "gate",
                           ![r].file = IF FilesWanted = {} THEN 0
                                       ELSE CHOOSE f \in FilesWanted : \A g \in FilesWanted : f <= g]
      <3>1. PICK f0 : f0 = IF FilesWanted = {} THEN 0 ELSE CHOOSE f \in FilesWanted : \A g \in FilesWanted : f <= g
        OBVIOUS
      <3>2. FilesWanted # {} => f0 \in PackFiles
        <4>1. ASSUME FilesWanted # {} PROVE \E f \in FilesWanted : \A g \in FilesWanted : f <= g
          <5>1. PICK k \in FilesWanted : TRUE
            BY <4>1
          <5>2. FilesWanted \subseteq Nat
            BY PackAssumption DEF FilesWanted, PackFiles, PackAssumption
          <5> QED BY <5>1, <5>2, LeastWanted
        <4> QED BY <3>1, <4>1 DEF FilesWanted
      <3>3. PICK pc : pc = IF FilesWanted = {} THEN "conclude" ELSE "gate"
        OBVIOUS
      <3>4. packRun' = [packRun EXCEPT ![r].pc = pc, ![r].file = f0]
        BY <2>3, <3>1, <3>3
      <3>5. PICK q : q = [packRun[r] EXCEPT !.pc = pc, !.file = f0]
        OBVIOUS
      <3>6. f0 \in 0..PackSize /\ pc \in RunPlaces
        BY <3>1, <3>2, <3>3, PackNumbers DEF RunPlaces, WithFile
      <3>7. q \in RunRecord /\ q.pc = pc /\ q.file = f0
        BY <1>0, <3>5, <3>6 DEF RunRecord
      <3>8. packRun' = [packRun EXCEPT ![r] = q]
        BY <1>0, <3>4, <3>5 DEF PackTyped, RunRecord
      <3>9. /\ packRun' \in [Runs -> RunRecord] /\ \A o \in Runs \ {r} : packRun'[o] = packRun[o]
            /\ packRun'[r] = q
        BY <1>0, <3>7, <3>8 DEF PackTyped
      <3>10. pc \in {"conclude", "gate"} /\ (pc \in WithFile => f0 \in PackFiles)
        BY <3>2, <3>3 DEF WithFile
      <3>11. offlinePack'.status = "expired" => expired
        BY <2>3 DEF PackSound, PackTyped
      <3>12. UNCHANGED <<packJob, call, expired, packGuard, packEvents, torn>>
        BY <1>1 DEF RunLooks
      <3>13. PackTyped' /\ (ReadyIsComplete' => PackSound')
        BY <1>0, <1>a, <2>3, <3>7, <3>9, <3>10, <3>11, <3>12, RunKeeps
      <3> QED BY <2>3, <3>12, <3>13, ReadyStays DEF NoneReady
    <2> QED BY <1>1, <2>1, <2>2, <2>3 DEF RunLooks
  <1>2. CASE RunConcludes(r)
    <2>1. PICK st : st = IF AllReady(offlinePack.files) THEN "ready" ELSE "error"
      OBVIOUS
    <2>2. offlinePack' = [offlinePack EXCEPT !.status = st, !.run = 0, !.auto = FALSE]
      BY <1>2, <2>1 DEF RunConcludes
    <2>3. st \in PackStatus /\ st # "expired"
      BY <2>1 DEF PackStatus
    <2>4. offlinePack' \in PackRecord /\ offlinePack'.exists = offlinePack.exists /\ offlinePack'.files = offlinePack.files
          /\ offlinePack'.status = st
      BY <1>0, <2>2, <2>3, RunSet
    <2>5. RunGoes(r, "leave") /\ UNCHANGED <<packJob, stopping, call, copies, parts, expired, packGuard, packEvents, torn>>
      BY <1>2 DEF RunConcludes
    <2> QED BY <1>0, <1>a, <2>3, <2>4, <2>5, RunGoesOn DEF NoneReady, WithFile
  <1>3. CASE RunWaits(r)
    <2>1. offlinePack' = [offlinePack EXCEPT !.status = "waiting"] /\ "waiting" \in PackStatus
      BY <1>3 DEF RunWaits, PackStatus
    <2>2. offlinePack' \in PackRecord /\ offlinePack'.exists = offlinePack.exists /\ offlinePack'.files = offlinePack.files
          /\ offlinePack'.status = "waiting"
      BY <1>0, <2>1 DEF PackRecord
    <2>3. RunGoes(r, "look") /\ UNCHANGED <<packJob, stopping, call, copies, parts, expired, packGuard, packEvents, torn>>
      BY <1>3 DEF RunWaits
    <2> QED BY <1>0, <1>a, <2>2, <2>3, RunGoesOn DEF NoneReady, WithFile
  <1>4. CASE RunFetches(r)
    <2>1. PICK f : f = packRun[r].file
      OBVIOUS
    <2>2. f \in PackFiles /\ packRun[r].pc = "gate"
      BY <1>0, <1>4, <2>1 DEF RunFetches, PackTyped, WithFile
    <2>3. offlinePack' = [offlinePack EXCEPT !.status = "running", !.files[f] = "downloading"]
      BY <1>4, <2>1 DEF RunFetches
    <2>4. "running" \in PackStatus /\ "downloading" \in FileStatus
      BY DEF PackStatus, FileStatus
    <2>5. offlinePack' \in PackRecord /\ offlinePack'.exists = offlinePack.exists /\ offlinePack'.status = "running"
          /\ offlinePack'.files = [offlinePack.files EXCEPT ![f] = "downloading"]
      <3>1. PICK files : files = [offlinePack.files EXCEPT ![f] = "downloading"]
        OBVIOUS
      <3>2. files \in [PackFiles -> FileStatus]
        BY <1>0, <2>2, <2>4, <3>1 DEF PackRecord
      <3>3. offlinePack' = [offlinePack EXCEPT !.status = "running", !.files = files]
        BY <1>0, <2>3, <3>1 DEF PackRecord
      <3> QED BY <1>0, <2>2, <2>4, <3>1, <3>2, <3>3 DEF PackRecord
    <2>6. NoneReady
      BY <1>0, <2>2, <2>5 DEF NoneReady, PackRecord
    <2>7. RunGoes(r, "fetch") /\ parts' = parts \cup {r}
          /\ UNCHANGED <<packJob, stopping, call, copies, expired, packGuard, packEvents, torn>>
      BY <1>4 DEF RunFetches
    <2> QED BY <1>0, <1>a, <2>2, <2>5, <2>6, <2>7, RunGoesOn DEF WithFile
  <1>5. ASSUME NEW got \in FetchEnds, RunFetched(r, got) PROVE PackSound'
    <2>1. /\ packRun[r].pc = "fetch" /\ UNCHANGED <<offlinePack, packJob, stopping, call, expired, packGuard, packEvents, torn>>
          /\ packRun' = [packRun EXCEPT ![r].pc = "settle", ![r].got = got] /\ parts' = {}
          /\ copies \subseteq copies' /\ copies' \subseteq copies \cup {packRun[r].file}
          /\ got = "whole" => packRun[r].file \in copies'
      BY <1>5 DEF RunFetched
    <2>2. packRun[r].file \in PackFiles
      BY <1>0, <2>1 DEF PackTyped, WithFile
    <2>3. PICK q : q = [packRun[r] EXCEPT !.pc = "settle", !.got = got]
      OBVIOUS
    <2>4. q \in RunRecord /\ q.pc = "settle" /\ q.file = packRun[r].file /\ q.got = got
      BY <1>0, <1>5, <2>3 DEF RunRecord, RunPlaces, WithFile
    <2>5. packRun' = [packRun EXCEPT ![r] = q]
      BY <1>0, <2>1, <2>3 DEF PackTyped, RunRecord
    <2>6. packRun' \in [Runs -> RunRecord] /\ packRun'[r] = q /\ \A o \in Runs \ {r} : packRun'[o] = packRun[o]
      BY <1>0, <2>4, <2>5 DEF PackTyped
    <2>7. offlinePack'.status = "expired" => expired
      BY <2>1 DEF PackSound, PackTyped
    <2>8. copies' \subseteq PackFiles
      BY <1>0, <2>1, <2>2
    <2>9. PackTyped' /\ (ReadyIsComplete' => PackSound')
      BY <1>0, <1>a, <2>1, <2>2, <2>4, <2>6, <2>7, <2>8, RunKeeps
    <2> QED BY <2>1, <2>9, ReadyStays DEF NoneReady
  <1>6. CASE RunSettles(r)
    <2>1. CASE RunExpires(r)
      BY <1>6, <1>a, <2>1, RunExpiring DEF RunSettles
    <2>2. CASE ~RunExpires(r)
      <3>1. PICK pc \in {"leave", "fail", "drop", "finish"} :
              /\ RunGoes(r, pc) /\ UNCHANGED <<offlinePack, copies, parts, stopping>>
              /\ pc = "drop" => offlinePack.files[packRun[r].file] = "cancelled"
        BY <1>6, <2>2 DEF RunSettles
      <3>2. packRun[r].pc = "settle" /\ UNCHANGED <<packJob, call, expired, packGuard, packEvents, torn>>
        BY <1>6 DEF RunSettles
      <3>3. offlinePack'.status = "expired" => expired
        BY <3>1 DEF PackSound, PackTyped
      <3> QED BY <1>0, <1>a, <3>1, <3>2, <3>3, RunGoesOn DEF NoneReady, WithFile
    <2> QED BY <2>1, <2>2
  <1>7. CASE RunDrops(r)
    <2>1. /\ packRun[r].pc = "drop" /\ RunGoes(r, "look") /\ copies' = copies \ {packRun[r].file}
          /\ UNCHANGED <<offlinePack, packJob, stopping, call, parts, expired, packGuard, packEvents, torn>>
      BY <1>7 DEF RunDrops
    <2>2. /\ packRun' \in [Runs -> RunRecord] /\ packRun'[r].pc = "look"
          /\ \A o \in Runs \ {r} : packRun'[o] = packRun[o]
      BY <1>0, <2>1, RunGoesTo DEF WithFile
    <2>3. offlinePack'.status = "expired" => expired
      BY <2>1 DEF PackSound, PackTyped
    <2>4. PackTyped' /\ (ReadyIsComplete' => PackSound')
      BY <1>0, <1>a, <2>1, <2>2, <2>3, RunKeeps DEF WithFile
    <2>5. ReadyIsComplete'
      BY <2>1 DEF PackSound, ReadyIsComplete, ReadyNotDropped, IsExpired
    <2> QED BY <2>4, <2>5
  <1>8. CASE RunFinishes(r)
    <2>1. PICK f, was, got : f = packRun[r].file /\ was = offlinePack.files[f] /\ got = packRun[r].got
      OBVIOUS
    <2>2. packRun[r].pc = "finish" /\ f \in PackFiles
      BY <1>0, <1>8, <2>1 DEF RunFinishes, PackTyped, WithFile
    <2>3. PICK st : st = IF got = "wait" /\ was # "cancelled" THEN "waiting" ELSE offlinePack.status
      OBVIOUS
    <2>4. PICK fs : fs = FileSettled(was, got)
      OBVIOUS
    <2>5. offlinePack' = [offlinePack EXCEPT !.files[f] = fs, !.status = st]
      BY <1>8, <2>1, <2>3, <2>4 DEF RunFinishes
    <2>6. PICK pc \in {"drop", "look"} : RunGoes(r, pc) /\ (pc = "drop" => got = "whole" /\ was = "cancelled")
      BY <1>8, <2>1 DEF RunFinishes
    <2>7. st \in PackStatus /\ (st = "expired" => expired) /\ fs \in FileStatus
          /\ (fs = "ready" => got = "whole") /\ (was = "cancelled" => fs = "cancelled")
      BY <1>0, <2>1, <2>2, <2>3, <2>4 DEF PackTyped, PackRecord, PackStatus, FileStatus, FileSettled, Outcome
    <2>8. offlinePack' = [offlinePack EXCEPT !.status = st, !.files[f] = fs]
      BY <1>0, <2>5 DEF PackRecord
    <2>9. offlinePack' \in PackRecord /\ offlinePack'.exists = offlinePack.exists /\ offlinePack'.status = st
          /\ offlinePack'.files = [offlinePack.files EXCEPT ![f] = fs]
      <3>1. PICK files : files = [offlinePack.files EXCEPT ![f] = fs]
        OBVIOUS
      <3>2. files \in [PackFiles -> FileStatus]
        BY <1>0, <2>2, <2>7, <3>1 DEF PackRecord
      <3>3. offlinePack' = [offlinePack EXCEPT !.status = st, !.files = files]
        BY <1>0, <2>8, <3>1 DEF PackRecord
      <3> QED BY <1>0, <2>2, <2>7, <3>1, <3>2, <3>3 DEF PackRecord
    <2>10. UNCHANGED <<packJob, stopping, call, copies, parts, expired, packGuard, packEvents, torn>>
      BY <1>8 DEF RunFinishes
    <2>11. /\ packRun' \in [Runs -> RunRecord] /\ packRun'[r].pc = pc
           /\ \A o \in Runs \ {r} : packRun'[o] = packRun[o]
           /\ pc = "drop" => packRun'[r].file = f /\ packRun'[r].file \in PackFiles
      BY <1>0, <2>1, <2>2, <2>6, RunGoesTo DEF WithFile
    <2>12. offlinePack'.files[f] = fs /\ \A g \in PackFiles \ {f} : offlinePack'.files[g] = offlinePack.files[g]
      BY <1>0, <2>2, <2>9 DEF PackRecord
    <2>13. PackTyped' /\ (ReadyIsComplete' => PackSound')
      BY <1>0, <1>a, <2>6, <2>7, <2>9, <2>10, <2>11, <2>12, RunKeeps DEF WithFile
    <2>14. CASE expired \/ torn
      BY <2>10, <2>13, <2>14, ExpiredExcuses
    <2>15. CASE ~expired /\ ~torn
      <3>1. got = "whole" => f \in copies
        BY <2>1, <2>2, <2>15 DEF PackSound, FetchedSound
      <3>2. ~IsExpired
        BY <1>0, <2>15 DEF IsExpired, PackTyped
      <3> QED BY <2>7, <2>9, <2>10, <2>12, <2>13, <2>15, <3>1, <3>2 DEF PackSound, ReadyIsComplete
    <2> QED BY <2>14, <2>15
  <1>9. CASE RunRefused(r) \/ RunFails(r)
    <2>1. PICK pc \in {"fail", "leave"} : RunGoes(r, pc)
      BY <1>9 DEF RunRefused, RunFails
    <2>2. UNCHANGED <<packJob, stopping, call, copies, parts, expired, packGuard, packEvents, torn>>
      BY <1>9 DEF RunRefused, RunFails
    <2>3. offlinePack' = offlinePack \/ offlinePack' = [offlinePack EXCEPT !.status = "paused", !.run = 0]
      BY <1>9 DEF RunRefused, RunFails
    <2>4. "paused" \in PackStatus
      BY DEF PackStatus
    <2>5. offlinePack' \in PackRecord /\ offlinePack'.exists = offlinePack.exists /\ offlinePack'.files = offlinePack.files
          /\ offlinePack'.status \in {offlinePack.status, "paused"}
      BY <1>0, <2>3, <2>4, PackNumbers DEF PackRecord
    <2>6. offlinePack'.status = "expired" => expired
      BY <2>5 DEF PackSound, PackTyped
    <2> QED BY <1>0, <1>a, <2>1, <2>2, <2>5, <2>6, RunGoesOn DEF NoneReady, WithFile
  <1>10. CASE RunLeaves(r)
    <2>1. PICK q : q = [NoPackRun EXCEPT !.pc = "ended"]
      OBVIOUS
    <2>2. q \in RunRecord /\ q.pc = "ended"
      BY <2>1, RecordsTyped, PackNumbers DEF RunRecord, RunPlaces, NoPackRun
    <2>3. packRun' = [packRun EXCEPT ![r] = q] /\ packJob' = 0 /\ parts' = {} /\ stopping' = stopping \ {r}
          /\ UNCHANGED <<offlinePack, call, copies, expired, packGuard, packEvents, torn>>
      BY <1>10, <2>1 DEF RunLeaves
    <2>4. packRun' \in [Runs -> RunRecord] /\ packRun'[r] = q /\ \A o \in Runs \ {r} : packRun'[o] = packRun[o]
      BY <1>0, <2>2, <2>3 DEF PackTyped
    <2>5. offlinePack'.status = "expired" => expired
      BY <2>3 DEF PackSound, PackTyped
    <2>6. PackTyped' /\ (ReadyIsComplete' => PackSound')
      BY <1>0, <1>a, <2>2, <2>3, <2>4, <2>5, RunKeeps DEF WithFile
    <2> QED BY <2>3, <2>6, ReadyStays DEF NoneReady
  <1> QED BY <1>1, <1>2, <1>3, <1>4, <1>5, <1>6, <1>7, <1>8, <1>9, <1>10 DEF RunStep

(***************************************************************************)
(* The commands.                                                           *)
(***************************************************************************)
LEMMA CallGoesTo ==
  ASSUME PackSound, NEW c \in Callers, call[c].pc # "prepare",
         Returns(c) \/ \E pc \in CallPlaces \ {"prepare"} : Goes(c, pc)
  PROVE  /\ call' \in [Callers -> CallRecord] /\ \A o \in Callers \ {c} : call'[o] = call[o]
         /\ call'[c].pc # "prepare" /\ call'[c].run = 0
  <1>0. call \in [Callers -> CallRecord] /\ call[c].run = 0
    BY DEF PackSound, PackTyped, LaunchSound
  <1>1. CASE Returns(c)
    BY <1>0, <1>1, RecordsTyped DEF Returns
  <1>2. CASE \E pc \in CallPlaces \ {"prepare"} : Goes(c, pc)
    <2>1. PICK pc \in CallPlaces \ {"prepare"} : Goes(c, pc)
      BY <1>2
    <2>2. PICK k : k = [call[c] EXCEPT !.pc = pc]
      OBVIOUS
    <2>3. k \in CallRecord /\ k.pc = pc /\ k.run = 0
      BY <1>0, <2>2 DEF CallRecord
    <2>4. call' = [call EXCEPT ![c] = k]
      BY <2>1, <2>2 DEF Goes
    <2> QED BY <1>0, <2>3, <2>4
  <1> QED BY <1>1, <1>2

\* A command moves that is not between its two steps of launch.
LEMMA CallKeeps ==
  ASSUME PackSound, NEW c \in Callers, call[c].pc # "prepare",
         call' \in [Callers -> CallRecord], \A o \in Callers \ {c} : call'[o] = call[o],
         call'[c].pc # "prepare", call'[c].run = 0,
         UNCHANGED <<packRun, packJob, expired, packGuard>>, packEvents' \in 0..MaxEvents,
         torn' \in BOOLEAN, packJob # 0 => (torn => torn'),
         offlinePack' \in PackRecord, offlinePack'.status = "expired" => expired,
         copies' \subseteq PackFiles, expired \/ torn' \/ copies \subseteq copies',
         parts' \subseteq Runs, stopping' \subseteq Runs, packJob # 0 => NoneReady
  PROVE  PackTyped' /\ (ReadyIsComplete' => PackSound')
  <1>0. PackTyped /\ OneRun /\ LaunchSound /\ FetchedSound /\ ReadyNotDropped
    BY DEF PackSound
  <1>1. PackTypeOK'
    BY <1>0 DEF PackTyped, PackTypeOK, PackRecord, FileStatus
  <1>2. PackTyped'
    BY <1>0, <1>1 DEF PackTyped
  <1>3. OneRun' /\ LaunchSound'
    BY <1>0 DEF OneRun, LaunchSound
  <1>4. \A r \in Runs : Active(r) => packJob # 0
    BY <1>0, PackNumbers DEF OneRun, Active
  <1>5. FetchedSound'
    <2> SUFFICES ASSUME NEW r \in Runs, packRun[r].pc \in {"settle", "finish"}, packRun[r].got = "whole",
                        ~expired, ~torn'
                 PROVE  packRun[r].file \in copies'
      BY DEF FetchedSound
    <2>1. packJob # 0
      BY <1>4 DEF Active
    <2> QED BY <1>0, <2>1 DEF FetchedSound
  <1>6. ReadyNotDropped'
    <2> SUFFICES ASSUME NEW r \in Runs, packRun[r].pc = "drop"
                 PROVE  offlinePack'.files[packRun[r].file] # "ready"
      BY DEF ReadyNotDropped
    <2>1. packJob # 0 /\ packRun[r].file \in PackFiles
      BY <1>0, <1>4 DEF Active, PackTyped, WithFile
    <2> QED BY <1>0, <2>1 DEF ReadyNotDropped, NoneReady
  <1> QED BY <1>2, <1>3, <1>5, <1>6 DEF PackSound

\* It may also change nothing but itself and the flags.
LEMMA CallOnlyGoes ==
  ASSUME PackSound, NEW c \in Callers, call[c].pc # "prepare",
         Returns(c) \/ \E pc \in CallPlaces \ {"prepare"} : Goes(c, pc),
         UNCHANGED <<offlinePack, packJob, packRun, copies, parts, expired, packGuard, packEvents, torn>>,
         stopping' \subseteq Runs
  PROVE  PackSound'
  <1>1. /\ call' \in [Callers -> CallRecord] /\ \A o \in Callers \ {c} : call'[o] = call[o]
        /\ call'[c].pc # "prepare" /\ call'[c].run = 0
    BY CallGoesTo
  <1>2. /\ packEvents' \in 0..MaxEvents /\ torn' \in BOOLEAN /\ offlinePack' \in PackRecord
        /\ (offlinePack'.status = "expired" => expired) /\ copies' \subseteq PackFiles /\ parts' \subseteq Runs /\ NoneReady
    BY DEF PackSound, PackTyped, PackTypeOK, NoneReady
  <1>3. PackTyped' /\ (ReadyIsComplete' => PackSound')
    BY <1>1, <1>2, CallKeeps
  <1> QED BY <1>2, <1>3, ReadyStays

LEMMA CallBeginsKeeps ==
  ASSUME PackSound, NEW c \in Callers, NEW kind \in Kinds, NEW f \in PackFiles, CallBegins(c, kind, f)
  PROVE  PackSound'
  <1>0. /\ PackTyped /\ call[c] = NoCall /\ call[c].pc # "prepare" /\ packEvents' \in 0..MaxEvents
        /\ UNCHANGED <<packJob, packRun, expired, packGuard>> /\ packGuard \in Nat
    BY RecordsTyped, PackAssumption DEF CallBegins, PackEvent, PackSound, PackTyped, PackTypeOK, PackAssumption
  <1>1. CASE RemoveExpiredFails /\ UNCHANGED <<call, torn>>
    <2>1. /\ offlinePack' \in PackRecord /\ expired /\ NoneReady
          /\ offlinePack' = offlinePack \/ offlinePack'.status = "expired"
          /\ parts' \subseteq Runs /\ copies' \subseteq PackFiles /\ stopping' \subseteq Runs
      BY <1>0, <1>1, RemoveMoves
    <2>2. call' \in [Callers -> CallRecord] /\ call'[c] = NoCall /\ torn' \in BOOLEAN
      BY <1>0, <1>1 DEF PackTyped
    <2>3. PackTyped' /\ (ReadyIsComplete' => PackSound')
      BY <1>0, <1>1, <2>1, <2>2, RecordsTyped, CallKeeps
    <2> QED BY <1>0, <2>1, <2>3, ExpiredExcuses
  <1>2. CASE /\ RemoveExpired \/ Reconcile
             /\ call' = [call EXCEPT ![c] =
                  IF FirstStep(kind, offlinePack') = "none" THEN NoCall
                  ELSE [pc |-> FirstStep(kind, offlinePack'), kind |-> kind, file |-> IF kind \in OfFile THEN f ELSE 0,
                        guard |-> packGuard, run |-> 0]]
             /\ torn' = (torn /\ (~NobodyRuns \/ \E o \in Callers : call[o].pc = "forget"))
    <2>1. PICK first : first = FirstStep(kind, offlinePack')
      OBVIOUS
    <2>2. first \in {"none", "launch", "signal"}
      BY <2>1 DEF FirstStep
    <2>3. PICK k : k = IF first = "none" THEN NoCall
                  ELSE [pc |-> first, kind |-> kind, file |-> IF kind \in OfFile THEN f ELSE 0,
                        guard |-> packGuard, run |-> 0]
      OBVIOUS
    <2>4. k \in CallRecord /\ k.pc # "prepare" /\ k.run = 0
      BY <1>0, <2>2, <2>3, RecordsTyped, PackNumbers DEF CallRecord, CallPlaces
    <2>5. call' = [call EXCEPT ![c] = k]
      BY <1>2, <2>1, <2>3
    <2>6. call' \in [Callers -> CallRecord] /\ call'[c] = k /\ \A o \in Callers \ {c} : call'[o] = call[o]
      BY <1>0, <2>4, <2>5 DEF PackTyped
    <2>7. torn' \in BOOLEAN /\ (packJob # 0 => (torn => torn'))
      BY <1>2 DEF NobodyRuns
    <2>8. CASE RemoveExpired
      <3>1. /\ offlinePack' \in PackRecord /\ expired /\ NoneReady
            /\ parts' \subseteq Runs /\ copies' \subseteq PackFiles /\ stopping' \subseteq Runs
        BY <1>0, <2>8, RemoveMoves
      <3>2. PackTyped' /\ (ReadyIsComplete' => PackSound')
        BY <1>0, <2>4, <2>6, <2>7, <3>1, CallKeeps
      <3> QED BY <1>0, <3>1, <3>2, ExpiredExcuses
    <2>9. CASE Reconcile
      <3>1. /\ offlinePack' \in PackRecord /\ offlinePack'.exists = offlinePack.exists
            /\ offlinePack'.status # "expired"
            /\ \A g \in PackFiles :
              /\ offlinePack'.files[g] = "ready" => g \in copies
              /\ packJob # 0 /\ offlinePack'.files[g] = "ready" => offlinePack.files[g] = "ready"
            /\ parts' \subseteq Runs /\ copies' = copies /\ stopping' = stopping
        BY <1>0, <2>9, ReconcileMoves
      <3>2. packJob # 0 => NoneReady
        BY <3>1 DEF NoneReady
      <3>3. copies' \subseteq PackFiles /\ stopping' \subseteq Runs
        BY <1>0, <3>1 DEF PackTyped, PackTypeOK
      <3>4. PackTyped' /\ (ReadyIsComplete' => PackSound')
        BY <1>0, <2>4, <2>6, <2>7, <3>1, <3>2, <3>3, CallKeeps
      <3> QED BY <3>1, <3>4 DEF ReadyIsComplete
    <2> QED BY <1>2, <2>8, <2>9
  <1> QED BY <1>1, <1>2 DEF CallBegins

LEMMA CallStepKeeps ==
  ASSUME PackSound, NEW c \in Callers, CallStep(c)
  PROVE  PackSound'
  <1>0. /\ PackTyped /\ LaunchSound /\ OneRun /\ copies \subseteq PackFiles /\ parts \subseteq Runs /\ stopping \subseteq Runs
        /\ offlinePack \in PackRecord /\ packEvents \in 0..MaxEvents /\ torn \in BOOLEAN /\ packJob \in 0..MaxRuns
        /\ (offlinePack.status = "expired" => expired) /\ call[c] \in CallRecord
    BY DEF PackSound, PackTyped, PackTypeOK
  <1>1. CASE Signals(c) \/ StopSeen(c) \/ PackBusy(c)
    <2>1. packJob \in Runs \cup {0}
      BY <1>0, PackAssumption DEF Runs, PackAssumption
    <2>2. stopping' \subseteq Runs
      BY <1>0, <1>1, <2>1 DEF Signals, StopSeen, PackBusy
    <2>3. /\ UNCHANGED <<offlinePack, packJob, packRun, copies, parts, expired, packGuard, packEvents, torn>>
          /\ call[c].pc # "prepare"
      BY <1>1 DEF Signals, StopSeen, PackBusy
    <2>4. Returns(c) \/ \E pc \in {"wait", "update", "clear"} : Goes(c, pc)
      BY <1>1 DEF Signals, StopSeen, PackBusy
    <2>5. Returns(c) \/ \E pc \in CallPlaces \ {"prepare"} : Goes(c, pc)
      BY <2>4 DEF CallPlaces
    <2> QED BY <2>2, <2>3, <2>5, CallOnlyGoes
  <1>2. CASE Updates(c)
    <2>1. /\ UNCHANGED <<packJob, stopping, packRun, copies, parts, expired, packGuard, packEvents, torn>>
          /\ call[c].pc # "prepare"
      BY <1>2 DEF Updates
    <2>2. Returns(c) \/ \E pc \in CallPlaces \ {"prepare"} : Goes(c, pc)
      <3>1. AfterUpdate(call[c].kind) \in CallPlaces \ {"prepare"}
        BY DEF AfterUpdate, CallPlaces
      <3> QED BY <1>2, <3>1 DEF Updates
    <2>3. CASE offlinePack' = offlinePack
      BY <1>0, <2>1, <2>2, <2>3, CallOnlyGoes
    <2>4. CASE offlinePack' = UpdateAction(offlinePack, call[c].kind, call[c].file)
      <3>1. /\ offlinePack' \in PackRecord /\ offlinePack'.exists = offlinePack.exists /\ NoneReady
            /\ offlinePack'.status = offlinePack.status \/ offlinePack'.status \in {"paused", "cancelled"}
        BY <1>0, <2>4, UpdateMoves
      <3>2. /\ call' \in [Callers -> CallRecord] /\ \A o \in Callers \ {c} : call'[o] = call[o]
            /\ call'[c].pc # "prepare" /\ call'[c].run = 0
        BY <2>1, <2>2, CallGoesTo
      <3>3. PackTyped' /\ (ReadyIsComplete' => PackSound')
        BY <1>0, <2>1, <3>1, <3>2, CallKeeps
      <3> QED BY <2>1, <3>1, <3>3, ReadyStays
    <2> QED BY <1>2, <2>3, <2>4 DEF Updates
  <1>3. CASE LaunchInserts(c)
    <2>1. CASE Returns(c) /\ UNCHANGED packJob
      <3>1. /\ UNCHANGED <<offlinePack, packRun, copies, parts, expired, packGuard, packEvents, torn, stopping>>
            /\ call[c].pc # "prepare"
        BY <1>3 DEF LaunchInserts
      <3> QED BY <1>0, <2>1, <3>1, CallOnlyGoes
    <2>2. CASE \E r \in Runs \ Launched : packJob' = r /\ call' = [call EXCEPT ![c].pc = "prepare", ![c].run = r]
      <3>1. PICK r \in Runs \ Launched : packJob' = r /\ call' = [call EXCEPT ![c].pc = "prepare", ![c].run = r]
        BY <2>2
      <3>2. packRun[r].pc = "none" /\ \A o \in Callers : call[o].run # r
        BY <3>1, RecordsTyped DEF Launched
      <3>3. ~Returns(c)
        <4>1. call'[c].pc = "prepare"
          BY <1>0, <3>1 DEF PackTyped, CallRecord
        <4> QED BY <1>0, <4>1, RecordsTyped DEF Returns, PackTyped
      <3>4. packJob = 0 /\ UNCHANGED <<offlinePack, stopping, packRun, copies, parts, expired, packGuard, packEvents, torn>>
        BY <1>3, <3>3 DEF LaunchInserts, Claimed
      <3>5. PICK k : k = [call[c] EXCEPT !.pc = "prepare", !.run = r]
        OBVIOUS
      <3>6. k \in CallRecord /\ k.pc = "prepare" /\ k.run = r
        BY <1>0, <3>1, <3>5, PackNumbers DEF CallRecord, CallPlaces
      <3>7. call' = [call EXCEPT ![c] = k]
        BY <1>0, <3>1, <3>5 DEF PackTyped, CallRecord
      <3>8. call' \in [Callers -> CallRecord] /\ call'[c] = k /\ \A o \in Callers \ {c} : call'[o] = call[o]
        BY <1>0, <3>6, <3>7 DEF PackTyped
      <3>9. \A o \in Callers : call[o].pc # "prepare" /\ call[o].run = 0
        BY <1>0, <3>4, PackNumbers DEF LaunchSound
      <3>10. \A o \in Runs : packRun[o].pc \in {"none", "ended"}
        BY <1>0, <3>4, PackNumbers DEF OneRun
      <3>11. PackTyped'
        BY <1>0, <3>1, <3>4, <3>8, PackNumbers DEF PackTyped, PackTypeOK
      <3>12. LaunchSound'
        BY <3>1, <3>2, <3>4, <3>6, <3>8, <3>9, PackNumbers DEF LaunchSound
      <3>13. OneRun' /\ FetchedSound' /\ ReadyNotDropped'
        BY <3>4, <3>10 DEF OneRun, FetchedSound, ReadyNotDropped
      <3>14. ReadyIsComplete'
        BY <3>4 DEF PackSound, ReadyIsComplete, IsExpired
      <3> QED BY <3>11, <3>12, <3>13, <3>14 DEF PackSound
    <2> QED BY <1>3, <2>1, <2>2 DEF LaunchInserts
  <1>4. CASE LaunchPrepares(c)
    <2>1. PICK r : r = call[c].run
      OBVIOUS
    <2>2. call[c].pc = "prepare" /\ r \in Runs /\ packJob = r /\ packRun[r].pc = "none" /\ r # 0
      BY <1>0, <1>4, <2>1, PackNumbers DEF LaunchPrepares, LaunchSound
    <2>3. \A o \in Runs \ {r} : packRun[o].pc \in {"none", "ended"}
      BY <1>0, <2>2 DEF OneRun
    <2>4. \A o \in Callers \ {c} : call[o].pc # "prepare" /\ call[o].run = 0
      BY <1>0, <2>1, <2>2 DEF LaunchSound
    <2>5. call' = [call EXCEPT ![c] = NoCall] /\ UNCHANGED <<stopping, copies, parts, expired, packGuard, packEvents, torn>>
      BY <1>4 DEF LaunchPrepares, Returns
    <2>6. /\ call' \in [Callers -> CallRecord] /\ call'[c] = NoCall /\ \A o \in Callers \ {c} : call'[o] = call[o]
      BY <1>0, <2>5, RecordsTyped DEF PackTyped
    <2>7. LaunchSound'
      BY <2>4, <2>6, RecordsTyped DEF LaunchSound
    <2>8. CASE /\ offlinePack' = [offlinePack EXCEPT !.run = r, !.auto = TRUE, !.status = "queued"]
               /\ packRun' = [packRun EXCEPT ![r] = [NoPackRun EXCEPT !.pc = "look", !.guard = call[c].guard]]
               /\ UNCHANGED packJob
      <3>1. PICK q : q = [NoPackRun EXCEPT !.pc = "look", !.guard = call[c].guard]
        OBVIOUS
      <3>2. q \in RunRecord /\ q.pc = "look"
        BY <1>0, <3>1, RecordsTyped DEF RunRecord, RunPlaces, CallRecord, NoPackRun
      <3>3. packRun' \in [Runs -> RunRecord] /\ packRun'[r] = q /\ \A o \in Runs \ {r} : packRun'[o] = packRun[o]
        BY <1>0, <2>2, <2>8, <3>1, <3>2 DEF PackTyped
      <3>4. PICK half : half = [offlinePack EXCEPT !.run = r, !.auto = TRUE]
        OBVIOUS
      <3>5. half \in PackRecord /\ half.exists = offlinePack.exists /\ half.files = offlinePack.files
        BY <1>0, <2>2, <3>4, PackNumbers DEF PackRecord
      <3>6. offlinePack' = [half EXCEPT !.status = "queued"]
        BY <1>0, <2>8, <3>4 DEF PackRecord
      <3>7. offlinePack' \in PackRecord /\ offlinePack'.exists = offlinePack.exists /\ offlinePack'.files = offlinePack.files
            /\ offlinePack'.status = "queued"
        BY <3>5, <3>6 DEF PackRecord, PackStatus
      <3>8. PackTyped'
        BY <1>0, <2>2, <2>5, <2>6, <2>8, <3>2, <3>3, <3>7, PackNumbers DEF PackTyped, PackTypeOK, PackRecord, FileStatus, WithFile
      <3>9. OneRun' /\ FetchedSound' /\ ReadyNotDropped'
        BY <2>2, <2>3, <2>8, <3>2, <3>3 DEF OneRun, FetchedSound, ReadyNotDropped
      <3>10. ReadyIsComplete'
        BY <2>5, <3>7, <3>8, ReadyStays DEF NoneReady
      <3> QED BY <2>7, <3>8, <3>9, <3>10 DEF PackSound
    <2>9. CASE packJob' = 0 /\ packRun' = [packRun EXCEPT ![r].pc = "ended"] /\ UNCHANGED offlinePack
      <3>1. PICK q : q = [packRun[r] EXCEPT !.pc = "ended"]
        OBVIOUS
      <3>2. q \in RunRecord /\ q.pc = "ended"
        BY <1>0, <2>2, <3>1 DEF PackTyped, RunRecord, RunPlaces
      <3>3. packRun' = [packRun EXCEPT ![r] = q]
        BY <2>9, <3>1
      <3>4. packRun' \in [Runs -> RunRecord] /\ packRun'[r] = q /\ \A o \in Runs \ {r} : packRun'[o] = packRun[o]
        BY <1>0, <2>2, <3>2, <3>3 DEF PackTyped
      <3>5. PackTyped'
        BY <1>0, <2>5, <2>6, <2>9, <3>2, <3>4, PackNumbers DEF PackTyped, PackTypeOK, WithFile
      <3>6. OneRun' /\ FetchedSound' /\ ReadyNotDropped'
        BY <2>2, <2>3, <2>9, <3>2, <3>4 DEF OneRun, FetchedSound, ReadyNotDropped
      <3>7. ReadyIsComplete'
        BY <2>5, <2>9, <3>5, ReadyStays DEF NoneReady
      <3> QED BY <2>7, <3>5, <3>6, <3>7 DEF PackSound
    <2> QED BY <1>4, <2>1, <2>8, <2>9 DEF LaunchPrepares
  <1>5. CASE Clears(c)
    <2>1. /\ UNCHANGED <<offlinePack, packJob, stopping, packRun, expired, packGuard, packEvents>>
          /\ call[c].pc # "prepare"
      BY <1>5 DEF Clears
    <2>2. Returns(c) \/ Goes(c, "forget")
      BY <1>5 DEF Clears
    <2>3. Returns(c) \/ \E pc \in CallPlaces \ {"prepare"} : Goes(c, pc)
      BY <2>2 DEF CallPlaces
    <2>4. CASE UNCHANGED <<copies, parts, torn>>
      BY <1>0, <2>1, <2>3, <2>4, CallOnlyGoes
    <2>5. CASE torn' = TRUE /\ copies' \subseteq copies /\ parts' \subseteq parts
      <3>1. /\ call' \in [Callers -> CallRecord] /\ \A o \in Callers \ {c} : call'[o] = call[o]
            /\ call'[c].pc # "prepare" /\ call'[c].run = 0
        BY <2>1, <2>3, CallGoesTo
      <3>2. copies' \subseteq PackFiles /\ parts' \subseteq Runs /\ NoneReady
        BY <1>0, <2>1, <2>5 DEF NoneReady
      <3>3. torn' \in BOOLEAN /\ torn'
        BY <2>5
      <3>4. PackTyped' /\ (ReadyIsComplete' => PackSound')
        BY <1>0, <2>1, <3>1, <3>2, <3>3, CallKeeps
      <3> QED BY <3>3, <3>4, ExpiredExcuses
    <2> QED BY <1>5, <2>4, <2>5 DEF Clears
  <1>6. CASE Forgets(c)
    <2>1. /\ UNCHANGED <<packJob, stopping, packRun, copies, parts, expired, packGuard, packEvents, torn>>
          /\ call[c].pc # "prepare" /\ Returns(c) /\ offlinePack' = NoPack
      BY <1>6 DEF Forgets
    <2>2. /\ call' \in [Callers -> CallRecord] /\ \A o \in Callers \ {c} : call'[o] = call[o]
          /\ call'[c].pc # "prepare" /\ call'[c].run = 0
      BY <2>1, CallGoesTo
    <2>3. offlinePack' \in PackRecord /\ offlinePack'.status # "expired" /\ NoneReady /\ ~offlinePack'.exists
      BY <2>1, RecordsTyped DEF NoneReady, NoPack
    <2>4. PackTyped' /\ (ReadyIsComplete' => PackSound')
      BY <1>0, <2>1, <2>2, <2>3, CallKeeps
    <2> QED BY <2>3, <2>4, ExpiredExcuses
  <1> QED BY <1>1, <1>2, <1>3, <1>4, <1>5, <1>6 DEF CallStep

LEMMA PackWorldKeeps ==
  ASSUME PackSound, PackExpires \/ SignedInAgain \/ PackCrash \/ UNCHANGED packVars
  PROVE  PackSound'
  <1>0. PackTyped /\ LaunchSound /\ OneRun /\ FetchedSound /\ ReadyIsComplete /\ ReadyNotDropped
    BY DEF PackSound
  <1>1. CASE PackExpires \/ SignedInAgain \/ UNCHANGED packVars
    <2>1. UNCHANGED <<offlinePack, packJob, stopping, packRun, call, copies, parts, torn>>
      BY <1>1 DEF PackExpires, SignedInAgain, packVars
    <2>a. packEvents \in 0..MaxEvents /\ packGuard \in Nat /\ MaxEvents \in Nat
      BY <1>0, PackAssumption DEF PackTyped, PackTypeOK, PackAssumption
    <2>b. packEvents' = packEvents \/ (packEvents < MaxEvents /\ packEvents' = packEvents + 1)
      BY <1>1 DEF PackExpires, SignedInAgain, packVars, PackEvent
    <2>c. packGuard' = packGuard \/ packGuard' = packGuard + 1
      BY <1>1 DEF PackExpires, SignedInAgain, packVars
    <2>d. packEvents' \in 0..MaxEvents /\ packGuard' \in Nat
      BY <2>a, <2>b, <2>c
    <2>e. expired' = expired \/ expired' = TRUE
      BY <1>1 DEF PackExpires, SignedInAgain, packVars
    <2>f. expired \in BOOLEAN
      BY <1>0 DEF PackTyped
    <2>g. expired' \in BOOLEAN
      BY <2>e, <2>f
    <2>h. expired => expired'
      <3>1. CASE expired' = expired
        BY <3>1
      <3>2. CASE expired' = TRUE
        BY <3>2
      <3> QED BY <2>e, <3>1, <3>2
    <2>2. packEvents' \in 0..MaxEvents /\ packGuard' \in Nat /\ expired' \in BOOLEAN /\ (expired => expired')
      BY <2>d, <2>g, <2>h
    <2>3. PackTyped'
      BY <1>0, <2>1, <2>2 DEF PackTyped, PackTypeOK
    <2>4. OneRun' /\ LaunchSound' /\ FetchedSound' /\ ReadyNotDropped'
      BY <1>0, <2>1, <2>2 DEF OneRun, LaunchSound, FetchedSound, ReadyNotDropped
    <2>5. ReadyIsComplete'
      BY <1>0, <2>1, <2>2 DEF ReadyIsComplete, IsExpired
    <2> QED BY <2>3, <2>4, <2>5 DEF PackSound
  <1>2. CASE PackCrash
    <2>1. /\ packJob' = 0 /\ stopping' = {} /\ call' = [c \in Callers |-> NoCall]
          /\ packRun' = [r \in Runs |-> IF r \in Launched THEN [NoPackRun EXCEPT !.pc = "ended"] ELSE NoPackRun]
          /\ UNCHANGED <<offlinePack, copies, parts, expired, packGuard, torn>>
      BY <1>2 DEF PackCrash
    <2>2. packEvents' \in 0..MaxEvents
      BY <1>0, <1>2, PackAssumption DEF PackCrash, PackEvent, PackTyped, PackTypeOK, PackAssumption
    <2>3. PICK q : q = [NoPackRun EXCEPT !.pc = "ended"]
      OBVIOUS
    <2>4. q \in RunRecord /\ q.pc = "ended"
      BY <2>3, RecordsTyped DEF RunRecord, RunPlaces, NoPackRun
    <2>5. packRun' = [r \in Runs |-> IF r \in Launched THEN q ELSE NoPackRun]
      BY <2>1, <2>3
    <2>6. packRun' \in [Runs -> RunRecord] /\ \A r \in Runs : packRun'[r].pc \in {"none", "ended"}
      BY <2>4, <2>5, RecordsTyped
    <2>7. call' \in [Callers -> CallRecord] /\ \A c \in Callers : call'[c].pc = "none" /\ call'[c].run = 0
      BY <2>1, RecordsTyped
    <2>8. PackTyped'
      BY <1>0, <2>1, <2>2, <2>6, <2>7, PackNumbers DEF PackTyped, PackTypeOK, WithFile
    <2>9. OneRun' /\ LaunchSound' /\ FetchedSound' /\ ReadyNotDropped'
      BY <2>6, <2>7 DEF OneRun, LaunchSound, FetchedSound, ReadyNotDropped
    <2>10. ReadyIsComplete'
      BY <1>0, <2>1 DEF ReadyIsComplete, IsExpired
    <2> QED BY <2>8, <2>9, <2>10 DEF PackSound
  <1> QED BY <1>1, <1>2

(***************************************************************************)
(* The theorems.                                                           *)
(***************************************************************************)
LEMMA PackStarts ==
  ASSUME PackInit
  PROVE  PackSound
  <1>1. /\ stopping = {} /\ copies = {} /\ parts = {} /\ packGuard = 1 /\ packEvents = 0
        /\ call = [c \in Callers |-> NoCall]
    BY DEF PackInit
  <1>2. expired = FALSE /\ torn = FALSE
    BY DEF PackInit
  <1>3. PICK files : files = [f \in PackFiles |-> IF f \in Unsupported THEN "unsupported" ELSE "pending"]
    OBVIOUS
  <1>4. files \in [PackFiles -> FileStatus] /\ \A f \in PackFiles : files[f] # "ready"
    BY <1>3 DEF FileStatus
  <1>5. CreateRecord = [exists |-> TRUE, status |-> "paused", auto |-> FALSE, run |-> 0, files |-> files]
    BY <1>3 DEF CreateRecord
  <1>6. CreateRecord \in PackRecord /\ CreateRecord.files = files /\ CreateRecord.status = "paused"
    BY <1>4, <1>5, PackNumbers DEF PackRecord, PackStatus
  <1>7. call \in [Callers -> CallRecord] /\ \A c \in Callers : call[c].pc = "none" /\ call[c].run = 0
    BY <1>1, RecordsTyped
  <1>8. CASE offlinePack = CreateRecord /\ packJob = 0 /\ packRun = [r \in Runs |-> NoPackRun]
    <2>1. packRun \in [Runs -> RunRecord] /\ \A r \in Runs : packRun[r].pc = "none"
      BY <1>8, RecordsTyped
    <2>2. PackTyped
      <3>1. packGuard \in Nat /\ packEvents \in 0..MaxEvents /\ packJob \in 0..MaxRuns
        BY <1>1, <1>8, PackNumbers, PackAssumption DEF PackAssumption
      <3>2. stopping \subseteq Runs /\ parts \subseteq Runs /\ copies \subseteq PackFiles
        BY <1>1
      <3>3. offlinePack \in PackRecord /\ offlinePack.status # "expired"
        BY <1>6, <1>8
      <3>4. PackTypeOK
        BY <3>1, <3>2, <3>3 DEF PackTypeOK, PackRecord, FileStatus
      <3>5. expired \in BOOLEAN /\ torn \in BOOLEAN
        BY <1>2
      <3>6. \A r \in Runs : packRun[r].pc \notin WithFile
        BY <2>1 DEF WithFile
      <3> QED BY <1>7, <2>1, <3>3, <3>4, <3>5, <3>6 DEF PackTyped
    <2>3. OneRun /\ LaunchSound /\ FetchedSound /\ ReadyNotDropped
      BY <1>7, <2>1 DEF OneRun, LaunchSound, FetchedSound, ReadyNotDropped
    <2>4. ReadyIsComplete
      BY <1>4, <1>6, <1>8 DEF ReadyIsComplete
    <2> QED BY <2>2, <2>3, <2>4 DEF PackSound
  <1>9. CASE /\ offlinePack = [CreateRecord EXCEPT !.status = "queued", !.auto = TRUE, !.run = 1]
             /\ packJob = 1
             /\ packRun = [r \in Runs |-> IF r = 1 THEN [NoPackRun EXCEPT !.pc = "look", !.guard = 1] ELSE NoPackRun]
    <2>1. PICK q : q = [NoPackRun EXCEPT !.pc = "look", !.guard = 1]
      OBVIOUS
    <2>2. q \in RunRecord /\ q.pc = "look"
      BY <2>1, RecordsTyped DEF RunRecord, RunPlaces, NoPackRun
    <2>3. packRun = [r \in Runs |-> IF r = 1 THEN q ELSE NoPackRun]
      BY <1>9, <2>1
    <2>4. packRun \in [Runs -> RunRecord] /\ packRun[1].pc = "look" /\ \A r \in Runs \ {1} : packRun[r].pc = "none"
      BY <2>2, <2>3, RecordsTyped, PackNumbers
    <2>5. PICK half : half = [CreateRecord EXCEPT !.status = "queued", !.auto = TRUE]
      OBVIOUS
    <2>6. half \in PackRecord /\ half.files = files /\ half.status = "queued"
      BY <1>6, <2>5 DEF PackRecord, PackStatus
    <2>7. offlinePack = [half EXCEPT !.run = 1]
      BY <1>6, <1>9, <2>5 DEF PackRecord
    <2>8. offlinePack \in PackRecord /\ offlinePack.files = files /\ offlinePack.status = "queued"
      BY <2>6, <2>7, PackNumbers DEF PackRecord
    <2>9. PackTyped
      <3>1. packGuard \in Nat /\ packEvents \in 0..MaxEvents /\ packJob \in 0..MaxRuns
        BY <1>1, <1>9, PackNumbers, PackAssumption DEF PackAssumption
      <3>2. stopping \subseteq Runs /\ parts \subseteq Runs /\ copies \subseteq PackFiles
        BY <1>1
      <3>3. offlinePack \in PackRecord /\ offlinePack.status # "expired"
        BY <2>8
      <3>4. PackTypeOK
        BY <3>1, <3>2, <3>3 DEF PackTypeOK, PackRecord, FileStatus
      <3>5. expired \in BOOLEAN /\ torn \in BOOLEAN
        BY <1>2
      <3>6. \A r \in Runs : packRun[r].pc \notin WithFile
        BY <2>4 DEF WithFile
      <3> QED BY <1>7, <2>4, <3>3, <3>4, <3>5, <3>6 DEF PackTyped
    <2>10. OneRun /\ LaunchSound /\ FetchedSound /\ ReadyNotDropped
      BY <1>7, <1>9, <2>4 DEF OneRun, LaunchSound, FetchedSound, ReadyNotDropped
    <2>11. ReadyIsComplete
      BY <1>4, <2>8 DEF ReadyIsComplete
    <2> QED BY <2>9, <2>10, <2>11 DEF PackSound
  <1> QED BY <1>8, <1>9 DEF PackInit

LEMMA PackStep ==
  ASSUME PackSound, [PackNext]_packVars
  PROVE  PackSound'
  <1>1. ASSUME NEW c \in Callers, CallStep(c) PROVE PackSound'
    BY <1>1, CallStepKeeps
  <1>2. ASSUME NEW c \in Callers, NEW kind \in Kinds, NEW f \in PackFiles, CallBegins(c, kind, f) PROVE PackSound'
    BY <1>2, CallBeginsKeeps
  <1>3. ASSUME NEW r \in Runs, RunStep(r) PROVE PackSound'
    BY <1>3, RunStepKeeps
  <1>4. CASE PackExpires \/ SignedInAgain \/ PackCrash \/ UNCHANGED packVars
    BY <1>4, PackWorldKeeps
  <1> QED BY <1>1, <1>2, <1>3, <1>4 DEF PackNext

(***************************************************************************)
(* A pack has one run at a time, and its record reports as ready only      *)
(* files whose copy is there, for packs of any size and any number of      *)
(* commands, runs, crashes and sign-ins (maintain, launch, run_pack).      *)
(***************************************************************************)
THEOREM PackInvariant == PackSpec => []PackInv
  <1>1. PackInit => PackSound
    BY PackStarts
  <1>2. PackSound /\ [PackNext]_packVars => PackSound'
    BY PackStep
  <1>3. PackSound => PackInv
    BY DEF PackSound, PackTyped, PackInv
  <1> QED BY <1>1, <1>2, <1>3, PTL DEF PackSpec

\* What a step may do to a file that was cancelled.
Uncancelled(f) ==
  \/ ~offlinePack'.exists \/ offlinePack'.status = "expired"
  \/ \E r \in Runs : packRun[r].pc = "gate" /\ packRun[r].file = f
  \/ \E c \in Callers : call[c].pc = "update" /\ call[c].kind \in {"start", "retryFile"}
                          /\ call'[c].pc # "update"

LEMMA CallKeepsCancelled ==
  ASSUME PackSound, NEW c \in Callers, NEW f \in PackFiles, offlinePack.files[f] = "cancelled",
         offlinePack'.files[f] # "cancelled",
         CallStep(c) \/ \E kind \in Kinds, g \in PackFiles : CallBegins(c, kind, g)
  PROVE  Uncancelled(f)
  <1>0. PackTyped /\ offlinePack \in PackRecord /\ call[c] \in CallRecord
    BY DEF PackSound, PackTyped
  <1>1. CASE Updates(c)
    <2>1. call[c].pc = "update" /\ offlinePack' = UpdateAction(offlinePack, call[c].kind, call[c].file)
      BY <1>1 DEF Updates
    <2>2. call[c].kind \in {"start", "retryFile"}
      BY <1>0, <2>1, UpdateMoves
    <2>3. Returns(c) \/ \E pc \in CallPlaces \ {"prepare", "update"} : Goes(c, pc)
      <3>1. AfterUpdate(call[c].kind) \in CallPlaces \ {"prepare", "update"}
        BY DEF AfterUpdate, CallPlaces
      <3> QED BY <1>1, <3>1 DEF Updates
    <2>4. call'[c].pc # "update"
      <3>1. CASE Returns(c)
        BY <1>0, <3>1, RecordsTyped DEF Returns, PackTyped
      <3>2. CASE \E pc \in CallPlaces \ {"prepare", "update"} : Goes(c, pc)
        BY <1>0, <3>2 DEF Goes, PackTyped, CallRecord
      <3> QED BY <2>3, <3>1, <3>2
    <2> QED BY <2>1, <2>2, <2>4 DEF Uncancelled
  <1>2. CASE LaunchPrepares(c)
    <2>1. offlinePack' = offlinePack \/ offlinePack' = [offlinePack EXCEPT !.run = call[c].run, !.auto = TRUE, !.status = "queued"]
      BY <1>2 DEF LaunchPrepares
    <2>2. offlinePack'.files = offlinePack.files
      <3>1. PICK half : half = [offlinePack EXCEPT !.run = call[c].run, !.auto = TRUE]
        OBVIOUS
      <3>2. half.files = offlinePack.files /\ DOMAIN half = DOMAIN offlinePack
        BY <1>0, <3>1 DEF PackRecord
      <3>3. offlinePack' = offlinePack \/ offlinePack' = [half EXCEPT !.status = "queued"]
        BY <1>0, <2>1, <3>1 DEF PackRecord
      <3> QED BY <1>0, <3>2, <3>3 DEF PackRecord
    <2> QED BY <2>2
  <1>3. CASE Forgets(c)
    BY <1>3 DEF Forgets, NoPack, Uncancelled
  <1>4. CASE Signals(c) \/ StopSeen(c) \/ PackBusy(c) \/ LaunchInserts(c) \/ Clears(c)
    BY <1>4 DEF Signals, StopSeen, PackBusy, LaunchInserts, Clears
  <1>5. CASE \E kind \in Kinds, g \in PackFiles : CallBegins(c, kind, g)
    <2>1. RemoveExpired \/ Reconcile \/ RemoveExpiredFails
      BY <1>5 DEF CallBegins
    <2>2. CASE Reconcile
      BY <1>0, <2>2, ReconcileMoves
    <2>3. CASE RemoveExpired \/ RemoveExpiredFails
      BY <1>0, <2>3, RemoveMoves DEF Uncancelled
    <2> QED BY <2>1, <2>2, <2>3
  <1> QED BY <1>1, <1>2, <1>3, <1>4, <1>5 DEF CallStep

LEMMA RunKeepsCancelled ==
  ASSUME PackSound, NEW r \in Runs, NEW f \in PackFiles, offlinePack.files[f] = "cancelled",
         offlinePack'.files[f] # "cancelled", RunStep(r)
  PROVE  Uncancelled(f)
  <1>0. PackTyped /\ offlinePack \in PackRecord /\ packRun[r] \in RunRecord
    BY DEF PackSound, PackTyped
  <1>1. CASE RunLooks(r) \/ RunSettles(r)
    <2>1. RemoveExpired \/ RemoveExpiredFails \/ UNCHANGED offlinePack
      BY <1>1 DEF RunLooks, RunSettles, RunExpires
    <2>2. RemoveExpired \/ RemoveExpiredFails
      BY <2>1
    <2> QED BY <1>0, <2>2, RemoveMoves DEF Uncancelled
  <1>2. CASE RunConcludes(r)
    <2>1. PICK st : st = IF AllReady(offlinePack.files) THEN "ready" ELSE "error"
      OBVIOUS
    <2>2. offlinePack' = [offlinePack EXCEPT !.status = st, !.run = 0, !.auto = FALSE] /\ st \in PackStatus
      BY <1>2, <2>1 DEF RunConcludes, PackStatus
    <2> QED BY <1>0, <2>2, RunSet
  <1>3. CASE RunWaits(r) \/ RunRefused(r) \/ RunFails(r)
    <2>1. \/ offlinePack' = offlinePack \/ offlinePack' = [offlinePack EXCEPT !.status = "waiting"]
          \/ offlinePack' = [offlinePack EXCEPT !.status = "paused", !.run = 0]
      BY <1>3 DEF RunWaits, RunRefused, RunFails
    <2> QED BY <1>0, <2>1 DEF PackRecord
  <1>4. CASE RunFetches(r)
    <2>1. packRun[r].pc = "gate"
          /\ offlinePack' = [offlinePack EXCEPT !.status = "running", !.files[packRun[r].file] = "downloading"]
      BY <1>4 DEF RunFetches
    <2>2. PICK files, g : g = packRun[r].file /\ files = [offlinePack.files EXCEPT ![g] = "downloading"]
      OBVIOUS
    <2>3. offlinePack' = [offlinePack EXCEPT !.status = "running", !.files = files]
      BY <1>0, <2>1, <2>2 DEF PackRecord
    <2>4. offlinePack'.files[f] = IF f = g THEN "downloading" ELSE offlinePack.files[f]
      BY <1>0, <2>2, <2>3 DEF PackRecord
    <2> QED BY <2>1, <2>2, <2>4 DEF Uncancelled
  <1>5. CASE RunFinishes(r)
    <2>1. PICK g, was, got : g = packRun[r].file /\ was = offlinePack.files[g] /\ got = packRun[r].got
      OBVIOUS
    <2>2. PICK fs, st : fs = FileSettled(was, got)
                        /\ st = IF got = "wait" /\ was # "cancelled" THEN "waiting" ELSE offlinePack.status
      OBVIOUS
    <2>3. offlinePack' = [offlinePack EXCEPT !.files[g] = fs, !.status = st]
      BY <1>5, <2>1, <2>2 DEF RunFinishes
    <2>4. PICK files : files = [offlinePack.files EXCEPT ![g] = fs]
      OBVIOUS
    <2>5. offlinePack' = [offlinePack EXCEPT !.files = files, !.status = st]
      BY <1>0, <2>3, <2>4 DEF PackRecord
    <2>6. offlinePack'.files[f] = IF f = g THEN fs ELSE offlinePack.files[f]
      BY <1>0, <2>4, <2>5 DEF PackRecord
    <2>7. was = "cancelled" => fs = "cancelled"
      BY <2>2 DEF FileSettled
    <2> QED BY <2>1, <2>6, <2>7
  <1>6. CASE RunDrops(r) \/ RunLeaves(r) \/ \E got \in FetchEnds : RunFetched(r, got)
    BY <1>6 DEF RunDrops, RunLeaves, RunFetched
  <1> QED BY <1>1, <1>2, <1>3, <1>4, <1>5, <1>6 DEF RunStep

(***************************************************************************)
(* A file the user cancelled stays cancelled until the user asks for it    *)
(* again, the pack ends, or a run that picked it before goes on waiting    *)
(* for the network, for packs of any size (run_pack, update_action).       *)
(***************************************************************************)
THEOREM CancelledStays == PackSpec => CancelStays
  <1>1. PackInit => PackSound
    BY PackStarts
  <1>2. PackSound /\ [PackNext]_packVars => PackSound'
    BY PackStep
  <1>3. ASSUME PackSound, [PackNext]_packVars, NEW f \in PackFiles,
               offlinePack.files[f] = "cancelled", offlinePack'.files[f] # "cancelled"
        PROVE  Uncancelled(f)
    <2>1. ASSUME NEW c \in Callers, CallStep(c) \/ \E kind \in Kinds, g \in PackFiles : CallBegins(c, kind, g)
          PROVE  Uncancelled(f)
      BY <1>3, <2>1, CallKeepsCancelled
    <2>2. ASSUME NEW r \in Runs, RunStep(r) PROVE Uncancelled(f)
      BY <1>3, <2>2, RunKeepsCancelled
    <2>3. CASE PackExpires \/ SignedInAgain \/ PackCrash \/ UNCHANGED packVars
      BY <1>3, <2>3 DEF PackExpires, SignedInAgain, PackCrash, packVars
    <2> QED BY <1>3, <2>1, <2>2, <2>3 DEF PackNext
  <1>4. PackSound /\ [PackNext]_packVars =>
          [\A f \in PackFiles :
             offlinePack.files[f] = "cancelled" /\ offlinePack'.files[f] # "cancelled" =>
               \/ ~offlinePack'.exists \/ offlinePack'.status = "expired"
               \/ \E r \in Runs : packRun[r].pc = "gate" /\ packRun[r].file = f
               \/ \E c \in Callers : call[c].pc = "update" /\ call[c].kind \in {"start", "retryFile"}
                                      /\ call'[c].pc # "update"]_packVars
    BY <1>3 DEF Uncancelled
  <1> QED BY <1>1, <1>2, <1>4, PTL DEF PackSpec, CancelStays

-----------------------------------------------------------------------------
(***************************************************************************)
(* Protected uploads.  What Telegram has or may still receive under the    *)
(* recorded file id is of the recorded envelope, and a block the record or *)
(* the attempt counts as sent is there.                                    *)
(***************************************************************************)
SentPart == [block : 1 .. FinalRecord, envelope : Nat, content : Seq(Nat)]
ProgressRecord ==
  [envelope : Nat, stamp : Nat, settled : BOOLEAN, done : 0 .. FinalRecord, prefix : Seq(Nat), fresh : BOOLEAN]
UploadRun ==
  [pc : {"idle", "prepare", "load", "send", "publish"}, secret : Secrets \cup {0}, stamp : Nat, envelope : Nat,
   done : 0 .. FinalRecord, next : 1 .. (FinalRecord + 1), read : Seq(Nat), waits : SUBSET SentPart,
   restarted : BOOLEAN, resumed : BOOLEAN, anew : BOOLEAN, steady : BOOLEAN]
SourceFile == [block : [1 .. Blocks -> Nat], stamp : 1 .. (MaxEdits + 1), young : BOOLEAN, edits : 0 .. MaxEdits]

StoresBlock(stored, b) == \E q \in stored : q.block = b

\* The record on the disk: what it claims Telegram has, and all that Telegram
\* has or may still receive under the file id is of its envelope.
ProgressFits(p, stored, onWay, secrets) ==
  /\ p \in ProgressRecord /\ Len(p.prefix) = BlocksIn(p.done) /\ p.envelope \in 0 .. Len(secrets)
  /\ p = NoProgress \/ (/\ p.envelope # 0 /\ \A q \in stored \cup onWay : q.envelope = p.envelope
                        /\ \A b \in 1 .. p.done : StoresBlock(stored, b))

\* A run that sends: its blocks are there or awaited.
Sends(r, p, stored) ==
  /\ p.envelope = r.envelope /\ Len(r.read) = BlocksIn(r.next - 1) /\ r.done <= r.next - 1
  /\ \A q \in r.waits : q.envelope = r.envelope /\ q.block < r.next
  /\ \A b \in 1 .. (r.next - 1) : StoresBlock(stored, b) \/ StoresBlock(r.waits, b)
  /\ \A b \in 1 .. r.done : StoresBlock(stored, b)

RunFits(r, p, stored, secrets) ==
  /\ r \in UploadRun
  /\ r.pc # "idle" => r.secret \in Secrets
  /\ r.pc \in {"load", "send", "publish"} => r.envelope \in 1 .. Len(secrets) /\ secrets[r.envelope] = r.secret
  /\ r.pc \notin {"send", "publish"} => r.waits = {} /\ r.next = 1 /\ r.done = 0 /\ r.read = <<>>
  /\ r.pc \in {"send", "publish"} => Sends(r, p, stored)
  /\ r.pc = "publish" => r.waits = {} /\ r.done = FinalRecord

PartsFit(stored, onWay, secrets) ==
  /\ stored \subseteq SentPart /\ onWay \subseteq SentPart
  /\ \A q \in stored \cup onWay : q.envelope \in 1 .. Len(secrets)

PostsFit(posted, secrets) ==
  \A m \in posted : /\ {<<p.block, p.envelope>> : p \in m.parts} = {<<b, m.envelope>> : b \in 1 .. FinalRecord}
                    /\ m.envelope \in 1 .. Len(secrets) /\ secrets[m.envelope] = m.secret

ProtectedSound ==
  /\ plaintext \in SourceFile /\ plaintext.stamp <= plaintext.edits + 1
  /\ secretOf \in Seq(Secrets)
  /\ PartsFit(storedSession, flight, secretOf)
  /\ ProgressFits(progress, storedSession, flight, secretOf)
  /\ RunFits(protectedRun, progress, storedSession, secretOf)
  /\ PostsFit(postedFile, secretOf)

-----------------------------------------------------------------------------
LEMMA BlocksAre ==
  /\ Blocks \in Nat \ {0} /\ MaxEnvelopes \in Nat \ {0} /\ MaxEdits \in Nat
  /\ FinalRecord \in Nat /\ FinalRecord = Blocks + 1
  BY ProtectedAssumption DEF ProtectedAssumption, FinalRecord

LEMMA BlocksInIs ==
  /\ \A n \in 0 .. FinalRecord : BlocksIn(n) \in 0 .. Blocks /\ BlocksIn(n) \in Nat /\ BlocksIn(n) <= n
  /\ \A n \in 0 .. Blocks : BlocksIn(n) = n
  /\ BlocksIn(FinalRecord) = Blocks /\ BlocksIn(0) = 0
  /\ \A n \in 0 .. FinalRecord : \A k \in 0 .. n : BlocksIn(k) <= BlocksIn(n)
  BY BlocksAre DEF BlocksIn

LEMMA NothingYet ==
  /\ NoProgress \in ProgressRecord /\ NoProgress.envelope = 0 /\ NoProgress.done = 0 /\ NoProgress.prefix = <<>>
  /\ Len(NoProgress.prefix) = BlocksIn(NoProgress.done)
  /\ NoRun \in UploadRun /\ NoRun.pc = "idle" /\ NoRun.waits = {} /\ NoRun.next = 1 /\ NoRun.done = 0 /\ NoRun.read = <<>>
  <1>1. <<>> \in Seq(Nat) /\ Len(<<>>) = 0
    BY EmptySeq
  <1>2. 0 \in 0 .. FinalRecord /\ 1 \in 1 .. (FinalRecord + 1) /\ BlocksIn(0) = 0
    BY BlocksAre, BlocksInIs
  <1> QED BY <1>1, <1>2 DEF NoProgress, NoRun, ProgressRecord, UploadRun

LEMMA EnvelopesAre ==
  ASSUME ProtectedSound
  PROVE  Envelopes = 1 .. Len(secretOf) /\ Cardinality(Envelopes) = Len(secretOf) /\ Len(secretOf) \in Nat
  <1>1. Len(secretOf) \in Nat /\ DOMAIN secretOf = 1 .. Len(secretOf)
    BY DEF ProtectedSound
  <1>2. Cardinality(1 .. Len(secretOf)) = Len(secretOf)
    <2>1. \A n \in Nat : Cardinality(1 .. n) = n
      BY FS_Interval
    <2> QED BY <1>1, <2>1
  <1> QED BY <1>1, <1>2 DEF Envelopes

\* A run that holds no block fits any record.
LEMMA EmptyRunFits ==
  ASSUME NEW r, r \in UploadRun, r.pc \in {"idle", "prepare"}, r.pc # "idle" => r.secret \in Secrets,
         r.waits = {}, r.next = 1, r.done = 0, r.read = <<>>, NEW p, NEW stored, NEW secrets
  PROVE  RunFits(r, p, stored, secrets)
  BY DEF RunFits

LEMMA StartKeeps ==
  ASSUME ProtectedSound, NEW s \in Secrets, Start(s)
  PROVE  ProtectedSound'
  <1>1. PICK r : r = [NoRun EXCEPT !.pc = "prepare", !.secret = s, !.stamp = plaintext.stamp, !.steady = TRUE]
    OBVIOUS
  <1>2. plaintext.stamp \in Nat
    BY BlocksAre DEF ProtectedSound, SourceFile
  <1>3. r \in UploadRun /\ r.pc = "prepare" /\ r.secret = s /\ r.waits = {} /\ r.next = 1 /\ r.done = 0 /\ r.read = <<>>
    BY <1>1, <1>2, NothingYet DEF UploadRun
  <1>4. RunFits(r, progress, storedSession, secretOf)
    BY <1>3, EmptyRunFits
  <1>5. protectedRun' = r /\ postedFile' = {} /\ UNCHANGED <<plaintext, progress, storedSession, flight, secretOf>>
    BY <1>1 DEF Start
  <1> QED BY <1>4, <1>5 DEF ProtectedSound, PostsFit

\* What holds of an envelope holds of it among more envelopes.
LEMMA MoreEnvelopes ==
  ASSUME NEW secrets \in Seq(Secrets), NEW s \in Secrets, NEW more, more = Append(secrets, s)
  PROVE  /\ more \in Seq(Secrets) /\ Len(more) = Len(secrets) + 1 /\ more[Len(secrets) + 1] = s
         /\ Len(secrets) \in Nat /\ \A i \in 1 .. Len(secrets) : more[i] = secrets[i]
  BY AppendProperties

LEMMA PrepareKeeps ==
  ASSUME ProtectedSound, Prepare
  PROVE  ProtectedSound'
  <1>0. /\ RunFits(protectedRun, progress, storedSession, secretOf) /\ protectedRun.pc = "prepare"
        /\ protectedRun \in UploadRun /\ protectedRun.secret \in Secrets /\ secretOf \in Seq(Secrets)
        /\ protectedRun.waits = {} /\ protectedRun.next = 1 /\ protectedRun.done = 0 /\ protectedRun.read = <<>>
        /\ ProgressFits(progress, storedSession, flight, secretOf) /\ Len(secretOf) \in Nat
        /\ PartsFit(storedSession, flight, secretOf) /\ PostsFit(postedFile, secretOf)
        /\ UNCHANGED <<plaintext, storedSession, flight, postedFile>>
    BY DEF ProtectedSound, Prepare, RunFits
  <1>1. PICK session : session = EnvelopeSession(protectedRun.stamp)
    OBVIOUS
  <1>2. session = progress \/ session = NoProgress
    BY <1>1 DEF EnvelopeSession
  <1>3. CASE /\ Continues(session, protectedRun.secret)
             /\ protectedRun' = [protectedRun EXCEPT !.pc = "load", !.envelope = session.envelope]
             /\ progress' = session /\ UNCHANGED secretOf
    <2>1. session = progress /\ progress # NoProgress /\ secretOf[progress.envelope] = protectedRun.secret
      BY <1>2, <1>3 DEF Continues
    <2>2. progress.envelope \in 1 .. Len(secretOf) /\ progress.envelope \in Nat
      BY <1>0, <2>1 DEF ProgressFits
    <2>3. /\ protectedRun' \in UploadRun /\ protectedRun'.pc = "load" /\ protectedRun'.envelope = progress.envelope
          /\ protectedRun'.secret = protectedRun.secret /\ protectedRun'.waits = {} /\ protectedRun'.next = 1
          /\ protectedRun'.done = 0 /\ protectedRun'.read = <<>>
      BY <1>0, <1>3, <2>1, <2>2 DEF UploadRun
    <2>4. RunFits(protectedRun', progress, storedSession, secretOf)
      BY <1>0, <2>1, <2>2, <2>3 DEF RunFits
    <2> QED BY <1>0, <1>3, <2>1, <2>4 DEF ProtectedSound
  <1>4. CASE /\ NewEnvelopeSession(protectedRun.secret)
             /\ protectedRun' = [protectedRun EXCEPT !.pc = "load", !.envelope = Cardinality(Envelopes) + 1]
             /\ progress' = NoProgress
    <2>1. PICK more : more = Append(secretOf, protectedRun.secret)
      OBVIOUS
    <2>2. secretOf' = more /\ Cardinality(Envelopes) + 1 = Len(secretOf) + 1
      BY <1>4, <2>1, EnvelopesAre DEF NewEnvelopeSession
    <2>3. /\ more \in Seq(Secrets) /\ Len(more) = Len(secretOf) + 1 /\ more[Len(secretOf) + 1] = protectedRun.secret
          /\ \A i \in 1 .. Len(secretOf) : more[i] = secretOf[i]
      BY <1>0, <2>1, MoreEnvelopes
    <2>4. Len(secretOf) + 1 \in Nat /\ Len(secretOf) + 1 \in 1 .. Len(more) /\ \A i \in 1 .. Len(secretOf) : i \in 1 .. Len(more)
      BY <1>0, <2>3
    <2>5. /\ protectedRun' \in UploadRun /\ protectedRun'.pc = "load" /\ protectedRun'.envelope = Len(secretOf) + 1
          /\ protectedRun'.secret = protectedRun.secret /\ protectedRun'.waits = {} /\ protectedRun'.next = 1
          /\ protectedRun'.done = 0 /\ protectedRun'.read = <<>>
      BY <1>0, <1>4, <2>2, <2>4 DEF UploadRun
    <2>6. RunFits(protectedRun', NoProgress, storedSession, more)
      BY <1>0, <2>3, <2>4, <2>5 DEF RunFits
    <2>7. ProgressFits(NoProgress, storedSession, flight, more)
      BY <1>0, <2>3, NothingYet DEF ProgressFits
    <2>8. PartsFit(storedSession, flight, more)
      BY <1>0, <2>4 DEF PartsFit
    <2>9. PostsFit(postedFile, more)
      BY <1>0, <2>3, <2>4 DEF PostsFit
    <2> QED BY <1>0, <1>4, <2>2, <2>3, <2>6, <2>7, <2>8, <2>9 DEF ProtectedSound
  <1> QED BY <1>1, <1>3, <1>4 DEF Prepare

LEMMA LoadKeeps ==
  ASSUME ProtectedSound, LoadEnvelope
  PROVE  ProtectedSound'
  <1>0. /\ RunFits(protectedRun, progress, storedSession, secretOf) /\ protectedRun.pc = "load"
        /\ protectedRun \in UploadRun /\ protectedRun.secret \in Secrets
        /\ protectedRun.envelope \in 1 .. Len(secretOf) /\ secretOf[protectedRun.envelope] = protectedRun.secret
        /\ protectedRun.waits = {} /\ protectedRun.next = 1 /\ protectedRun.done = 0 /\ protectedRun.read = <<>>
        /\ ProgressFits(progress, storedSession, flight, secretOf) /\ Len(secretOf) \in Nat
        /\ PartsFit(storedSession, flight, secretOf)
        /\ UNCHANGED <<plaintext, secretOf, postedFile>>
    BY DEF ProtectedSound, LoadEnvelope, RunFits
  <1>1. PICK session : session = EnvelopeSession(protectedRun.stamp)
    OBVIOUS
  <1>2. session = progress \/ session = NoProgress
    BY <1>1 DEF EnvelopeSession
  <1>3. CASE /\ SameUpload(session) /\ SamePrefix(session)
             /\ protectedRun' = [protectedRun EXCEPT !.pc = "send", !.done = session.done,
                              !.next = session.done + 1, !.read = session.prefix, !.resumed = session.done > 0]
             /\ progress' = session /\ UNCHANGED <<storedSession, flight>>
    <2>1. session = progress /\ progress # NoProgress /\ progress.envelope = protectedRun.envelope
      BY <1>2, <1>3 DEF SameUpload
    <2>2. PICK resumed \in BOOLEAN : resumed = (progress.done > 0)
      <3>1. CASE progress.done > 0
        <4>1. TRUE = (progress.done > 0)
          BY <3>1
        <4> QED BY <4>1, Zenon
      <3>2. CASE ~(progress.done > 0)
        <4>1. FALSE = (progress.done > 0)
          BY <3>2
        <4> QED BY <4>1, Zenon
      <3> QED BY <3>1, <3>2
    <2>3. PICK h : h = [protectedRun EXCEPT !.pc = "send", !.done = progress.done, !.resumed = resumed]
      OBVIOUS
    <2>4. progress.done \in 0 .. FinalRecord /\ progress.done + 1 \in 1 .. (FinalRecord + 1) /\ progress.prefix \in Seq(Nat)
          /\ Len(progress.prefix) = BlocksIn(progress.done) /\ (progress.done + 1) - 1 = progress.done
      BY <1>0, BlocksAre DEF ProgressFits, ProgressRecord
    <2>5. /\ h \in UploadRun /\ h.pc = "send" /\ h.envelope = protectedRun.envelope /\ h.secret = protectedRun.secret
          /\ h.waits = {} /\ h.done = progress.done
      BY <1>0, <2>2, <2>3, <2>4 DEF UploadRun
    <2>6. protectedRun' = [h EXCEPT !.next = progress.done + 1, !.read = progress.prefix]
      BY <1>0, <1>3, <2>1, <2>2, <2>3 DEF UploadRun
    <2>7. /\ protectedRun' \in UploadRun /\ protectedRun'.pc = "send" /\ protectedRun'.envelope = protectedRun.envelope
          /\ protectedRun'.secret = protectedRun.secret /\ protectedRun'.waits = {} /\ protectedRun'.done = progress.done
          /\ protectedRun'.next = progress.done + 1 /\ protectedRun'.read = progress.prefix
      BY <2>4, <2>5, <2>6 DEF UploadRun
    <2>8. \A b \in 1 .. progress.done : StoresBlock(storedSession, b)
      BY <1>0, <2>1 DEF ProgressFits
    <2>9. Sends(protectedRun', progress, storedSession)
      BY <2>1, <2>4, <2>7, <2>8 DEF Sends
    <2>10. RunFits(protectedRun', progress, storedSession, secretOf)
      BY <1>0, <2>7, <2>9 DEF RunFits
    <2> QED BY <1>0, <1>3, <2>1, <2>10 DEF ProtectedSound
  <1>4. CASE /\ ~SameUpload(session)
             /\ protectedRun' = [protectedRun EXCEPT !.pc = "send", !.anew = TRUE]
             /\ progress' = NewProgress(protectedRun.stamp = plaintext.stamp /\ ~plaintext.young)
             /\ storedSession' = {} /\ flight' = {}
    <2>0. PICK settled \in BOOLEAN : settled = (protectedRun.stamp = plaintext.stamp /\ ~plaintext.young)
      <3>1. CASE protectedRun.stamp = plaintext.stamp /\ ~plaintext.young
        <4>1. TRUE = (protectedRun.stamp = plaintext.stamp /\ ~plaintext.young)
          BY <3>1
        <4> QED BY <4>1, Zenon
      <3>2. CASE ~(protectedRun.stamp = plaintext.stamp /\ ~plaintext.young)
        <4>1. FALSE = (protectedRun.stamp = plaintext.stamp /\ ~plaintext.young)
          BY <3>2
        <4> QED BY <4>1, Zenon
      <3> QED BY <3>1, <3>2
    <2>1. PICK p : p = NewProgress(settled)
      OBVIOUS
    <2>2. p \in ProgressRecord /\ p.envelope = protectedRun.envelope /\ p.done = 0 /\ p.prefix = <<>>
      BY <1>0, <2>0, <2>1, NothingYet DEF NewProgress, ProgressRecord, UploadRun
    <2>10. progress' = p
      BY <1>4, <2>0, <2>1
    <2>11. Len(p.prefix) = BlocksIn(p.done)
      BY <2>2, NothingYet
    <2>3. ProgressFits(p, {}, {}, secretOf)
      BY <1>0, <2>2, <2>11 DEF ProgressFits
    <2>4. /\ protectedRun' \in UploadRun /\ protectedRun'.pc = "send" /\ protectedRun'.envelope = protectedRun.envelope
          /\ protectedRun'.secret = protectedRun.secret /\ protectedRun'.waits = {} /\ protectedRun'.done = 0
          /\ protectedRun'.next = 1 /\ protectedRun'.read = <<>>
      BY <1>0, <1>4 DEF UploadRun
    <2>5. Sends(protectedRun', p, {})
      BY <2>2, <2>4, EmptySeq, BlocksInIs DEF Sends
    <2>6. RunFits(protectedRun', p, {}, secretOf)
      BY <1>0, <2>4, <2>5 DEF RunFits
    <2>7. PartsFit({}, {}, secretOf)
      BY DEF PartsFit
    <2> QED BY <1>0, <1>4, <2>3, <2>6, <2>7, <2>10 DEF ProtectedSound
  <1> QED BY <1>1, <1>3, <1>4 DEF LoadEnvelope

LEMMA StaleKeeps ==
  ASSUME ProtectedSound, StaleEnvelope
  PROVE  ProtectedSound'
  <1>0. /\ protectedRun \in UploadRun /\ protectedRun.pc = "load" /\ protectedRun.secret \in Secrets
        /\ PartsFit(storedSession, flight, secretOf) /\ secretOf \in Seq(Secrets) /\ progress' = NoProgress
        /\ UNCHANGED <<plaintext, storedSession, flight, secretOf, postedFile>>
    BY DEF ProtectedSound, StaleEnvelope, RunFits
  <1>1. PICK r : r = StartOver
    OBVIOUS
  <1>2. /\ r \in UploadRun /\ r.pc = "prepare" /\ r.secret = protectedRun.secret /\ r.waits = {} /\ r.next = 1 /\ r.done = 0
        /\ r.read = <<>>
    BY <1>0, <1>1, NothingYet DEF UploadRun, StartOver
  <1>3. protectedRun' \in {NoRun, r}
    BY <1>1 DEF StaleEnvelope
  <1>4. RunFits(protectedRun', NoProgress, storedSession, secretOf)
    BY <1>0, <1>2, <1>3, EmptyRunFits, NothingYet
  <1>5. ProgressFits(NoProgress, storedSession, flight, secretOf)
    BY <1>0, NothingYet DEF ProgressFits
  <1> QED BY <1>0, <1>4, <1>5 DEF ProtectedSound

LEMMA EnvelopeSendKeeps ==
  ASSUME ProtectedSound, Send
  PROVE  ProtectedSound'
  <1>0. /\ RunFits(protectedRun, progress, storedSession, secretOf) /\ protectedRun.pc = "send" /\ protectedRun.next <= FinalRecord
        /\ protectedRun \in UploadRun /\ Sends(protectedRun, progress, storedSession)
        /\ UNCHANGED <<plaintext, progress, storedSession, flight, secretOf, postedFile>>
    BY DEF ProtectedSound, Send, RunFits
  <1>1. PICK b : b = protectedRun.next
    OBVIOUS
  <1>4. PICK read : read = [i \in 1 .. BlocksIn(b) |-> IF i < b THEN protectedRun.read[i] ELSE plaintext.block[i]]
    OBVIOUS
  <1>3. PICK part : part = EnvelopePart(protectedRun.envelope, read, b)
    OBVIOUS
  <1>5. PICK waits : waits = protectedRun.waits \cup {part}
    OBVIOUS
  <1>6. protectedRun' = [protectedRun EXCEPT !.next = b + 1, !.waits = waits, !.read = read]
    BY <1>1, <1>3, <1>4, <1>5 DEF Send
  <1>7. /\ b \in 1 .. FinalRecord /\ b \in Nat /\ b + 1 \in 1 .. (FinalRecord + 1) /\ protectedRun.envelope \in Nat
        /\ BlocksIn(b) \in 0 .. Blocks /\ BlocksIn(b) <= b
    BY <1>0, <1>1, BlocksAre, BlocksInIs DEF UploadRun
  <1>9. read \in [1 .. BlocksIn(b) -> Nat] /\ read \in Seq(Nat) /\ Len(read) = BlocksIn(b)
    <2>1. \A i \in 1 .. BlocksIn(b) : i < b => protectedRun.read[i] \in Nat
      <3> SUFFICES ASSUME NEW i \in 1 .. BlocksIn(b), i < b PROVE protectedRun.read[i] \in Nat
        OBVIOUS
      <3>1. protectedRun.read \in Seq(Nat) /\ Len(protectedRun.read) = BlocksIn(b - 1)
        BY <1>0, <1>1 DEF UploadRun, Sends
      <3>2. i \in 1 .. Len(protectedRun.read)
        BY <1>7, <3>1, BlocksAre, BlocksInIs
      <3> QED BY <3>1, <3>2, ElementOfSeq
    <2>2. \A i \in 1 .. BlocksIn(b) : plaintext.block[i] \in Nat
      BY <1>7, BlocksAre DEF ProtectedSound, SourceFile
    <2>3. read \in [1 .. BlocksIn(b) -> Nat]
      BY <1>4, <2>1, <2>2
    <2>4. read \in Seq(Nat)
      BY <1>7, <2>3, SeqDef, BlocksAre
    <2> QED BY <1>7, <2>3, <2>4, LenProperties, BlocksAre
  <1>8. part \in SentPart /\ part.block = b /\ part.envelope = protectedRun.envelope
    <2>1. b # FinalRecord => b \in 1 .. BlocksIn(b)
      BY <1>7, BlocksAre, BlocksInIs
    <2>2. part.content \in Seq(Nat)
      <3>1. CASE b = FinalRecord
        BY <1>3, <1>9, <3>1 DEF EnvelopePart
      <3>2. CASE b # FinalRecord
        <4>1. read[b] \in Nat
          BY <1>9, <2>1, <3>2
        <4>2. part.content = <<read[b]>>
          BY <1>3, <3>2 DEF EnvelopePart
        <4>3. <<read[b]>> \in Seq(Nat)
          BY <4>1
        <4> QED BY <4>2, <4>3
      <3> QED BY <3>1, <3>2
    <2>3. part = [block |-> b, envelope |-> protectedRun.envelope, content |-> part.content]
      BY <1>3 DEF EnvelopePart
    <2> QED BY <1>7, <2>2, <2>3 DEF SentPart
  <1>10. waits \in SUBSET SentPart
    BY <1>0, <1>5, <1>8 DEF UploadRun
  <1>11. /\ protectedRun' \in UploadRun /\ protectedRun'.pc = "send" /\ protectedRun'.envelope = protectedRun.envelope
         /\ protectedRun'.secret = protectedRun.secret /\ protectedRun'.waits = waits /\ protectedRun'.done = protectedRun.done
         /\ protectedRun'.next = b + 1 /\ protectedRun'.read = read
    BY <1>0, <1>6, <1>7, <1>9, <1>10 DEF UploadRun
  <1>12. Sends(protectedRun', progress, storedSession)
    <2>1. /\ progress.envelope = protectedRun.envelope /\ Len(read) = BlocksIn((b + 1) - 1) /\ (b + 1) - 1 = b /\ protectedRun.done <= (b + 1) - 1
      BY <1>0, <1>1, <1>7, <1>9 DEF Sends, UploadRun
    <2>2. \A q \in waits : q.envelope = protectedRun.envelope /\ q.block < b + 1
      <3> SUFFICES ASSUME NEW q \in waits PROVE q.envelope = protectedRun.envelope /\ q.block < b + 1
        OBVIOUS
      <3>1. q.block \in 1 .. FinalRecord
        BY <1>10 DEF SentPart
      <3>2. q = part \/ (q.envelope = protectedRun.envelope /\ q.block < b)
        BY <1>0, <1>1, <1>5 DEF Sends
      <3> QED BY <1>7, <1>8, <3>1, <3>2, BlocksAre
    <2>3. \A k \in 1 .. ((b + 1) - 1) : StoresBlock(storedSession, k) \/ StoresBlock(waits, k)
      <3> SUFFICES ASSUME NEW k \in 1 .. b PROVE StoresBlock(storedSession, k) \/ StoresBlock(waits, k)
        BY <1>7
      <3>1. CASE k = b
        BY <1>5, <1>8, <3>1 DEF StoresBlock
      <3>2. CASE k # b
        <4>1. k \in 1 .. (b - 1)
          BY <1>7, <3>2
        <4> QED BY <1>0, <1>1, <1>5, <4>1 DEF Sends, StoresBlock
      <3> QED BY <3>1, <3>2
    <2>4. \A k \in 1 .. protectedRun.done : StoresBlock(storedSession, k)
      BY <1>0 DEF Sends
    <2> QED BY <1>11, <2>1, <2>2, <2>3, <2>4 DEF Sends
  <1>13. RunFits(protectedRun', progress, storedSession, secretOf)
    BY <1>0, <1>11, <1>12 DEF RunFits
  <1> QED BY <1>0, <1>13 DEF ProtectedSound

\* A part of the envelope in use arrives: no block goes.
LEMMA PartArrives ==
  ASSUME ProtectedSound, NEW p \in SentPart, p.envelope \in 1 .. Len(secretOf),
         progress = NoProgress \/ p.envelope = progress.envelope
  PROVE  /\ PartsFit(Over(p), flight, secretOf) /\ ProgressFits(progress, Over(p), flight, secretOf)
         /\ StoresBlock(Over(p), p.block)
         /\ \A b : StoresBlock(storedSession, b) => StoresBlock(Over(p), b)
  <1>1. /\ PartsFit(storedSession, flight, secretOf) /\ ProgressFits(progress, storedSession, flight, secretOf)
    BY DEF ProtectedSound
  <1>2. p \in Over(p) /\ Over(p) \subseteq storedSession \cup {p}
    BY DEF Over
  <1>3. ASSUME NEW b, StoresBlock(storedSession, b) PROVE StoresBlock(Over(p), b)
    <2>1. PICK q \in storedSession : q.block = b
      BY <1>3 DEF StoresBlock
    <2>2. CASE b = p.block
      BY <1>2, <2>2 DEF StoresBlock
    <2>3. CASE b # p.block
      BY <2>1, <2>3 DEF StoresBlock, Over
    <2> QED BY <2>2, <2>3
  <1>4. StoresBlock(Over(p), p.block)
    BY <1>2 DEF StoresBlock
  <1>5. PartsFit(Over(p), flight, secretOf)
    BY <1>1, <1>2 DEF PartsFit
  <1>6. ProgressFits(progress, Over(p), flight, secretOf)
    BY <1>1, <1>2, <1>3 DEF ProgressFits
  <1> QED BY <1>3, <1>4, <1>5, <1>6

LEMMA EnvelopePrefixIs ==
  ASSUME NEW next \in 1 .. (FinalRecord + 1), NEW waits \in SUBSET SentPart, \A q \in waits : q.block < next
  PROVE  /\ EnvelopePrefix(next, waits) \in 0 .. next - 1
         /\ \A q \in waits : q.block > EnvelopePrefix(next, waits)
  <1> DEFINE Fits(n) == /\ \A q \in waits : q.block > n
                        /\ n = next - 1 \/ \E q \in waits : q.block = n + 1
  <1>0. next \in Nat /\ next >= 1 /\ \A q \in waits : q.block \in Nat /\ q.block >= 1
    BY BlocksAre DEF SentPart
  <1>1. \E n \in 0 .. next - 1 : Fits(n)
    <2>1. CASE waits = {}
      BY <1>0, <2>1
    <2>2. CASE waits # {}
      <3> DEFINE T == {q.block : q \in waits}
      <3>1. T \subseteq Nat /\ T # {}
        BY <1>0, <2>2
      <3>2. PICK k \in T : \A y \in T : ~(<<y, k>> \in OpToRel(<, Nat))
        <4>1. IsWellFoundedOn(OpToRel(<, Nat), Nat)
          BY NatLessThanWellFounded
        <4> QED BY <3>1, <4>1, WFMin
      <3>3. \A y \in T : ~(y < k)
        BY <3>1, <3>2 DEF OpToRel
      <3>4. PICK q \in waits : q.block = k
        BY <3>2
      <3>5. k \in Nat /\ k >= 1 /\ k < next
        BY <1>0, <3>4
      <3>6. \A o \in waits : o.block > k - 1
        BY <1>0, <3>3, <3>5
      <3>7. Fits(k - 1)
        BY <3>4, <3>5, <3>6
      <3> QED BY <1>0, <3>5, <3>7
    <2> QED BY <2>1, <2>2
  <1>2. EnvelopePrefix(next, waits) = CHOOSE n \in 0 .. next - 1 : Fits(n)
    BY DEF EnvelopePrefix
  <1>3. EnvelopePrefix(next, waits) \in 0 .. next - 1 /\ Fits(EnvelopePrefix(next, waits))
    BY <1>1, <1>2
  <1> QED BY <1>3

LEMMA ConfirmedKeeps ==
  ASSUME ProtectedSound, NEW p \in protectedRun.waits, PartConfirmed(p)
  PROVE  ProtectedSound'
  <1>0. /\ RunFits(protectedRun, progress, storedSession, secretOf) /\ protectedRun.pc = "send"
        /\ protectedRun \in UploadRun /\ Sends(protectedRun, progress, storedSession)
        /\ protectedRun.envelope \in 1 .. Len(secretOf)
        /\ storedSession' = Over(p)
        /\ UNCHANGED <<plaintext, progress, flight, secretOf, postedFile>>
    BY DEF ProtectedSound, PartConfirmed, RunFits
  <1>1. p \in SentPart /\ p.envelope = protectedRun.envelope /\ p.envelope = progress.envelope
    BY <1>0 DEF UploadRun, Sends
  <1>2. /\ PartsFit(Over(p), flight, secretOf) /\ ProgressFits(progress, Over(p), flight, secretOf)
        /\ StoresBlock(Over(p), p.block)
        /\ \A b : StoresBlock(storedSession, b) => StoresBlock(Over(p), b)
    BY <1>0, <1>1, PartArrives
  <1>3. PICK waits : waits = protectedRun.waits \ {p}
    OBVIOUS
  <1>4. PICK done : done = EnvelopePrefix(protectedRun.next, waits)
    OBVIOUS
  <1>5. protectedRun' = [protectedRun EXCEPT !.waits = waits, !.done = done]
    BY <1>3, <1>4 DEF PartConfirmed
  <1>6. waits \in SUBSET SentPart /\ protectedRun.next \in 1 .. (FinalRecord + 1)
        /\ \A q \in waits : q.block < protectedRun.next
    BY <1>0, <1>3 DEF UploadRun, Sends
  <1>7. done \in 0 .. protectedRun.next - 1 /\ \A q \in waits : q.block > done
    BY <1>4, <1>6, EnvelopePrefixIs
  <1>8. done \in 0 .. FinalRecord
    BY <1>6, <1>7, BlocksAre
  <1>9. /\ protectedRun' \in UploadRun /\ protectedRun'.pc = "send" /\ protectedRun'.envelope = protectedRun.envelope
        /\ protectedRun'.secret = protectedRun.secret /\ protectedRun'.waits = waits /\ protectedRun'.done = done
        /\ protectedRun'.next = protectedRun.next /\ protectedRun'.read = protectedRun.read
    BY <1>0, <1>5, <1>6, <1>8 DEF UploadRun
  <1>10. \A b \in 1 .. (protectedRun.next - 1) : StoresBlock(Over(p), b) \/ StoresBlock(waits, b)
    <2> SUFFICES ASSUME NEW b \in 1 .. (protectedRun.next - 1) PROVE StoresBlock(Over(p), b) \/ StoresBlock(waits, b)
      OBVIOUS
    <2>1. StoresBlock(storedSession, b) \/ StoresBlock(protectedRun.waits, b)
      BY <1>0 DEF Sends
    <2>2. CASE StoresBlock(storedSession, b)
      BY <1>2, <2>2
    <2>3. CASE StoresBlock(protectedRun.waits, b)
      BY <1>2, <1>3, <2>3 DEF StoresBlock
    <2> QED BY <2>1, <2>2, <2>3
  <1>11. \A b \in 1 .. done : StoresBlock(Over(p), b)
    <2> SUFFICES ASSUME NEW b \in 1 .. done PROVE StoresBlock(Over(p), b)
      OBVIOUS
    <2>1. b \in 1 .. (protectedRun.next - 1)
      BY <1>6, <1>7, BlocksAre
    <2>2. ~StoresBlock(waits, b)
      <3> SUFFICES ASSUME NEW q \in waits, q.block = b PROVE FALSE
        BY DEF StoresBlock
      <3>1. q.block > done
        BY <1>7
      <3> QED BY <1>7, <1>8, <3>1
    <2> QED BY <1>10, <2>1, <2>2
  <1>12. Sends(protectedRun', progress, Over(p))
    <2>1. /\ progress.envelope = protectedRun.envelope /\ Len(protectedRun.read) = BlocksIn(protectedRun.next - 1)
          /\ \A q \in waits : q.envelope = protectedRun.envelope
      BY <1>0, <1>3 DEF Sends
    <2>2. done <= protectedRun.next - 1
      BY <1>6, <1>7
    <2> QED BY <1>6, <1>9, <1>10, <1>11, <2>1, <2>2 DEF Sends
  <1>13. RunFits(protectedRun', progress, Over(p), secretOf)
    BY <1>0, <1>9, <1>12 DEF RunFits
  <1> QED BY <1>0, <1>2, <1>13 DEF ProtectedSound

LEMMA CheckpointKeeps ==
  ASSUME ProtectedSound, Checkpoint
  PROVE  ProtectedSound'
  <1>0. /\ protectedRun \in UploadRun /\ Sends(protectedRun, progress, storedSession) /\ protectedRun.pc = "send"
        /\ protectedRun.envelope \in 1 .. Len(secretOf) /\ Len(secretOf) \in Nat
        /\ RunFits(protectedRun, progress, storedSession, secretOf)
        /\ ProgressFits(progress, storedSession, flight, secretOf)
        /\ UNCHANGED <<plaintext, storedSession, flight, secretOf, protectedRun, postedFile>>
    BY DEF ProtectedSound, Checkpoint, RunFits
  <1>1. PICK done : done = protectedRun.done
    OBVIOUS
  <1>2. PICK prefix : prefix = [b \in 1 .. BlocksIn(done) |-> protectedRun.read[b]]
    OBVIOUS
  <1>3. PICK p : p = [progress EXCEPT !.done = done, !.prefix = prefix]
    OBVIOUS
  <1>4. progress' = p
    BY <1>1, <1>2, <1>3 DEF Checkpoint
  <1>5. done \in 0 .. FinalRecord /\ done \in Nat /\ done <= protectedRun.next - 1 /\ protectedRun.next \in Nat
        /\ BlocksIn(done) \in Nat /\ BlocksIn(done) <= BlocksIn(protectedRun.next - 1)
    BY <1>0, <1>1, BlocksAre, BlocksInIs DEF UploadRun, Sends
  <1>6. prefix \in Seq(Nat) /\ Len(prefix) = BlocksIn(done)
    <2>1. protectedRun.read \in Seq(Nat) /\ Len(protectedRun.read) = BlocksIn(protectedRun.next - 1)
      BY <1>0 DEF UploadRun, Sends
    <2>2. \A b \in 1 .. BlocksIn(done) : protectedRun.read[b] \in Nat
      <3> SUFFICES ASSUME NEW b \in 1 .. BlocksIn(done) PROVE protectedRun.read[b] \in Nat
        OBVIOUS
      <3>1. b \in 1 .. Len(protectedRun.read)
        BY <1>5, <2>1
      <3> QED BY <2>1, <3>1, ElementOfSeq
    <2>3. prefix \in [1 .. BlocksIn(done) -> Nat]
      BY <1>2, <2>2
    <2>4. prefix \in Seq(Nat)
      BY <1>5, <2>3, SeqDef
    <2> QED BY <1>5, <2>3, <2>4, LenProperties
  <1>7. p \in ProgressRecord /\ p.envelope = progress.envelope /\ p.done = done /\ p.prefix = prefix
    BY <1>0, <1>3, <1>5, <1>6 DEF ProgressFits, ProgressRecord
  <1>8. progress.envelope = protectedRun.envelope /\ progress.envelope # 0 /\ progress # NoProgress
    BY <1>0, NothingYet DEF Sends
  <1>9. \A b \in 1 .. done : StoresBlock(storedSession, b)
    BY <1>0, <1>1 DEF Sends
  <1>10. ProgressFits(p, storedSession, flight, secretOf)
    BY <1>0, <1>6, <1>7, <1>8, <1>9 DEF ProgressFits
  <1>11. Sends(protectedRun, p, storedSession)
    BY <1>0, <1>7 DEF Sends
  <1>12. RunFits(protectedRun, p, storedSession, secretOf)
    BY <1>0, <1>11 DEF RunFits
  <1> QED BY <1>0, <1>4, <1>10, <1>12 DEF ProtectedSound

LEMMA SentKeeps ==
  ASSUME ProtectedSound, Sent
  PROVE  ProtectedSound'
  <1>0. /\ protectedRun \in UploadRun /\ Sends(protectedRun, progress, storedSession) /\ protectedRun.pc = "send"
        /\ RunFits(protectedRun, progress, storedSession, secretOf)
        /\ protectedRun.waits = {} /\ protectedRun.done = FinalRecord
        /\ protectedRun' = [protectedRun EXCEPT !.pc = "publish"]
        /\ UNCHANGED <<plaintext, progress, storedSession, flight, secretOf, postedFile>>
    BY DEF ProtectedSound, Sent, RunFits
  <1>1. /\ protectedRun' \in UploadRun /\ protectedRun'.pc = "publish" /\ protectedRun'.envelope = protectedRun.envelope
        /\ protectedRun'.secret = protectedRun.secret /\ protectedRun'.waits = protectedRun.waits
        /\ protectedRun'.done = protectedRun.done /\ protectedRun'.next = protectedRun.next
        /\ protectedRun'.read = protectedRun.read
    BY <1>0 DEF UploadRun
  <1>2. Sends(protectedRun', progress, storedSession)
    BY <1>0, <1>1 DEF Sends
  <1>3. RunFits(protectedRun', progress, storedSession, secretOf)
    BY <1>0, <1>1, <1>2 DEF RunFits
  <1> QED BY <1>0, <1>3 DEF ProtectedSound

\* What a finished run leaves at Telegram is the whole envelope it names.
LEMMA EnvelopePublishKeeps ==
  ASSUME ProtectedSound, PublishEnvelope
  PROVE  ProtectedSound'
  <1>0. /\ protectedRun \in UploadRun /\ Sends(protectedRun, progress, storedSession) /\ protectedRun.pc = "publish"
        /\ protectedRun.envelope \in 1 .. Len(secretOf) /\ secretOf[protectedRun.envelope] = protectedRun.secret
        /\ protectedRun.done = FinalRecord /\ Len(secretOf) \in Nat
        /\ ProgressFits(progress, storedSession, flight, secretOf) /\ PartsFit(storedSession, flight, secretOf)
        /\ PostsFit(postedFile, secretOf)
        /\ protectedRun' = NoRun /\ progress' \in {progress, NoProgress}
        /\ UNCHANGED <<plaintext, storedSession, flight, secretOf>>
    BY DEF ProtectedSound, PublishEnvelope, RunFits
  <1>1. PICK e : e = protectedRun.envelope
    OBVIOUS
  <1>2. PICK holds : holds = {<<q.block, q.envelope>> : q \in storedSession}
    OBVIOUS
  <1>4. PICK m \in postedFile' : /\ postedFile' = {m} /\ m.parts = storedSession
                                 /\ m.envelope = e /\ m.secret = protectedRun.secret
    BY <1>1 DEF PublishEnvelope
  <1>5. \A q \in storedSession : q.envelope = e /\ q.block \in 1 .. FinalRecord
    <2>1. progress # NoProgress /\ progress.envelope = e
      BY <1>0, <1>1, NothingYet DEF Sends
    <2>2. \A q \in storedSession : q.envelope = e
      BY <1>0, <2>1 DEF ProgressFits
    <2> QED BY <1>0, <2>2 DEF PartsFit, SentPart
  <1>6. \A b \in 1 .. FinalRecord : \E q \in storedSession : q.block = b
    BY <1>0 DEF Sends, StoresBlock
  <1>7. holds = {<<b, e>> : b \in 1 .. FinalRecord}
    BY <1>2, <1>5, <1>6
  <1>10. PostsFit(postedFile', secretOf)
    BY <1>0, <1>1, <1>2, <1>4, <1>7 DEF PostsFit
  <1>11. ProgressFits(progress', storedSession, flight, secretOf)
    BY <1>0, NothingYet DEF ProgressFits
  <1>12. RunFits(NoRun, progress', storedSession, secretOf)
    BY NothingYet, EmptyRunFits
  <1> QED BY <1>0, <1>10, <1>11, <1>12 DEF ProtectedSound

LEMMA UnusableKeeps ==
  ASSUME ProtectedSound, PartsUnusable
  PROVE  ProtectedSound'
  <1>0. /\ protectedRun \in UploadRun /\ protectedRun.secret \in Secrets
        /\ PartsFit(storedSession, flight, secretOf) /\ secretOf \in Seq(Secrets) /\ progress' = NoProgress
        /\ storedSession' = {}
        /\ UNCHANGED <<plaintext, flight, secretOf, postedFile>>
    BY DEF ProtectedSound, PartsUnusable, RunFits
  <1>1. PICK r : r = StartOver
    OBVIOUS
  <1>2. /\ r \in UploadRun /\ r.pc = "prepare" /\ r.secret = protectedRun.secret /\ r.waits = {} /\ r.next = 1 /\ r.done = 0
        /\ r.read = <<>>
    BY <1>0, <1>1, NothingYet DEF UploadRun, StartOver
  <1>3. protectedRun' \in {NoRun, r}
    BY <1>1 DEF PartsUnusable
  <1>4. RunFits(protectedRun', NoProgress, {}, secretOf)
    BY <1>0, <1>2, <1>3, EmptyRunFits, NothingYet
  <1>5. ProgressFits(NoProgress, {}, flight, secretOf) /\ PartsFit({}, flight, secretOf)
    BY <1>0, NothingYet DEF ProgressFits, PartsFit
  <1> QED BY <1>0, <1>4, <1>5 DEF ProtectedSound

\* An attempt that ends leaves its requests on their way: they are of the
\* recorded envelope.
LEMMA StopKeeps ==
  ASSUME ProtectedSound, StopUpload
  PROVE  ProtectedSound'
  <1>0. /\ RunFits(protectedRun, progress, storedSession, secretOf) /\ protectedRun \in UploadRun
        /\ ProgressFits(progress, storedSession, flight, secretOf) /\ PartsFit(storedSession, flight, secretOf)
        /\ protectedRun' = NoRun /\ flight' = flight \cup protectedRun.waits
        /\ UNCHANGED <<plaintext, progress, storedSession, secretOf, postedFile>>
    BY DEF ProtectedSound, StopUpload, RunEnds, RunFits
  <1>1. \A q \in protectedRun.waits : q.envelope = progress.envelope /\ q.envelope \in 1 .. Len(secretOf)
    BY <1>0 DEF RunFits, Sends
  <1>2. protectedRun.waits \subseteq SentPart
    BY <1>0 DEF UploadRun
  <1>3. PartsFit(storedSession, flight', secretOf)
    BY <1>0, <1>1, <1>2 DEF PartsFit
  <1>4. ProgressFits(progress, storedSession, flight', secretOf)
    BY <1>0, <1>1 DEF ProgressFits
  <1>5. RunFits(NoRun, progress, storedSession, secretOf)
    BY NothingYet, EmptyRunFits
  <1> QED BY <1>0, <1>3, <1>4, <1>5 DEF ProtectedSound

LEMMA EnvelopeArriveKeeps ==
  ASSUME ProtectedSound, NEW p \in flight, ArriveEnvelope(p)
  PROVE  ProtectedSound'
  <1>0. /\ RunFits(protectedRun, progress, storedSession, secretOf)
        /\ ProgressFits(progress, storedSession, flight, secretOf) /\ PartsFit(storedSession, flight, secretOf)
        /\ storedSession' \in {storedSession, Over(p)} /\ flight' = flight \ {p}
        /\ UNCHANGED <<plaintext, progress, secretOf, protectedRun, postedFile>>
    BY DEF ProtectedSound, ArriveEnvelope
  <1>1. /\ p \in SentPart /\ p.envelope \in 1 .. Len(secretOf)
        /\ progress = NoProgress \/ p.envelope = progress.envelope
    BY <1>0 DEF PartsFit, ProgressFits
  <1>2. /\ PartsFit(Over(p), flight, secretOf) /\ ProgressFits(progress, Over(p), flight, secretOf)
        /\ \A b : StoresBlock(storedSession, b) => StoresBlock(Over(p), b)
    BY <1>1, PartArrives
  <1>3. PICK stored : stored = storedSession'
    OBVIOUS
  <1>4. /\ PartsFit(stored, flight, secretOf) /\ ProgressFits(progress, stored, flight, secretOf)
        /\ \A b : StoresBlock(storedSession, b) => StoresBlock(stored, b)
    BY <1>0, <1>2, <1>3
  <1>5. PartsFit(stored, flight', secretOf) /\ ProgressFits(progress, stored, flight', secretOf)
    BY <1>0, <1>4 DEF PartsFit, ProgressFits
  <1>6. RunFits(protectedRun, progress, stored, secretOf)
    <2>1. Sends(protectedRun, progress, storedSession) => Sends(protectedRun, progress, stored)
      BY <1>4 DEF Sends
    <2> QED BY <1>0, <2>1 DEF RunFits
  <1> QED BY <1>0, <1>3, <1>5, <1>6 DEF ProtectedSound

LEMMA EditKeeps ==
  ASSUME ProtectedSound, NEW b \in 1 .. Blocks, Edit(b)
  PROVE  ProtectedSound'
  <1>0. plaintext \in SourceFile /\ plaintext.stamp <= plaintext.edits + 1 /\ plaintext.edits < MaxEdits
        /\ UNCHANGED <<progress, storedSession, flight, secretOf, postedFile>>
    BY DEF ProtectedSound, Edit
  <1>1. PICK stamp \in {plaintext.stamp, plaintext.stamp + 1} :
           plaintext' = [block |-> [plaintext.block EXCEPT ![b] = plaintext.edits + 2], stamp |-> stamp,
                         young |-> TRUE, edits |-> plaintext.edits + 1]
    BY DEF Edit
  <1>2. PICK block : block = [plaintext.block EXCEPT ![b] = plaintext.edits + 2]
    OBVIOUS
  <1>3. plaintext.block \in [1 .. Blocks -> Nat] /\ plaintext.edits \in Nat /\ plaintext.stamp \in Nat /\ plaintext.stamp >= 1
    BY <1>0, BlocksAre DEF SourceFile
  <1>4. block \in [1 .. Blocks -> Nat]
    BY <1>2, <1>3
  <1>5. plaintext' = [block |-> block, stamp |-> stamp, young |-> TRUE, edits |-> plaintext.edits + 1]
    BY <1>1, <1>2
  <1>6. stamp \in 1 .. (MaxEdits + 1) /\ plaintext.edits + 1 \in 0 .. MaxEdits /\ stamp <= (plaintext.edits + 1) + 1
    <2>1. plaintext.stamp <= plaintext.edits + 1 /\ plaintext.edits < MaxEdits /\ MaxEdits \in Nat
      BY <1>0, BlocksAre
    <2>2. stamp = plaintext.stamp \/ stamp = plaintext.stamp + 1
      OBVIOUS
    <2> QED BY <1>3, <2>1, <2>2
  <1>7. plaintext' \in SourceFile /\ plaintext'.stamp <= plaintext'.edits + 1
    BY <1>4, <1>5, <1>6 DEF SourceFile
  <1>8. PICK r : r = [protectedRun EXCEPT !.steady = FALSE]
    OBVIOUS
  <1>9. RunFits(protectedRun, progress, storedSession, secretOf) /\ protectedRun \in UploadRun
    BY DEF ProtectedSound, RunFits
  <1>10. /\ r \in UploadRun /\ r.pc = protectedRun.pc /\ r.secret = protectedRun.secret /\ r.envelope = protectedRun.envelope
         /\ r.done = protectedRun.done /\ r.next = protectedRun.next /\ r.read = protectedRun.read
         /\ r.waits = protectedRun.waits
    BY <1>8, <1>9 DEF UploadRun
  <1>11. RunFits(r, progress, storedSession, secretOf)
    <2>1. Sends(protectedRun, progress, storedSession) => Sends(r, progress, storedSession)
      BY <1>10 DEF Sends
    <2> QED BY <1>9, <1>10, <2>1 DEF RunFits
  <1>12. protectedRun' = r
    BY <1>8 DEF Edit
  <1> QED BY <1>0, <1>7, <1>11, <1>12 DEF ProtectedSound

LEMMA SettleKeeps ==
  ASSUME ProtectedSound, Settle
  PROVE  ProtectedSound'
  <1>1. plaintext' = [plaintext EXCEPT !.young = FALSE]
        /\ UNCHANGED <<progress, storedSession, flight, secretOf, protectedRun, postedFile>>
    BY DEF Settle
  <1>2. plaintext' \in SourceFile /\ plaintext'.stamp <= plaintext'.edits + 1
    BY <1>1 DEF ProtectedSound, SourceFile
  <1> QED BY <1>1, <1>2 DEF ProtectedSound

LEMMA AgeKeeps ==
  ASSUME ProtectedSound, Age
  PROVE  ProtectedSound'
  <1>0. /\ ProgressFits(progress, storedSession, flight, secretOf) /\ progress.fresh
        /\ RunFits(protectedRun, progress, storedSession, secretOf)
        /\ UNCHANGED <<plaintext, storedSession, flight, secretOf, protectedRun, postedFile>>
    BY DEF ProtectedSound, Age
  <1>1. PICK p : p = [progress EXCEPT !.fresh = FALSE]
    OBVIOUS
  <1>2. progress # NoProgress
    BY <1>0 DEF NoProgress
  <1>3. p \in ProgressRecord /\ p.envelope = progress.envelope /\ p.done = progress.done /\ p.prefix = progress.prefix
    BY <1>0, <1>1 DEF ProgressFits, ProgressRecord
  <1>4. ProgressFits(p, storedSession, flight, secretOf)
    BY <1>0, <1>2, <1>3 DEF ProgressFits
  <1>5. RunFits(protectedRun, p, storedSession, secretOf)
    <2>1. Sends(protectedRun, progress, storedSession) => Sends(protectedRun, p, storedSession)
      BY <1>3 DEF Sends
    <2> QED BY <1>0, <2>1 DEF RunFits
  <1>6. progress' = p
    BY <1>1 DEF Age
  <1> QED BY <1>0, <1>4, <1>5, <1>6 DEF ProtectedSound

-----------------------------------------------------------------------------
LEMMA ProtectedStarts == ProtectedInit => ProtectedSound
  <1> SUFFICES ASSUME ProtectedInit PROVE ProtectedSound
    OBVIOUS
  <1>1. plaintext \in SourceFile /\ plaintext.stamp <= plaintext.edits + 1
    BY BlocksAre DEF ProtectedInit, SourceFile
  <1>2. secretOf \in Seq(Secrets) /\ secretOf = <<>> /\ Len(secretOf) = 0
    BY EmptySeq DEF ProtectedInit
  <1>3. PartsFit({}, {}, secretOf) /\ PostsFit({}, secretOf)
    BY DEF PartsFit, PostsFit
  <1>4. ProgressFits(NoProgress, {}, {}, secretOf)
    BY <1>2, NothingYet DEF ProgressFits
  <1>5. RunFits(NoRun, NoProgress, {}, secretOf)
    BY NothingYet, EmptyRunFits
  <1> QED BY <1>1, <1>2, <1>3, <1>4, <1>5 DEF ProtectedInit, ProtectedSound

LEMMA ProtectedStep == ProtectedSound /\ [ProtectedNext]_protectedVars => ProtectedSound'
  <1> SUFFICES ASSUME ProtectedSound, [ProtectedNext]_protectedVars PROVE ProtectedSound'
    OBVIOUS
  <1>1. ASSUME NEW s \in Secrets, Start(s) PROVE ProtectedSound'
    BY <1>1, StartKeeps
  <1>2. CASE Prepare
    BY <1>2, PrepareKeeps
  <1>3. CASE LoadEnvelope
    BY <1>3, LoadKeeps
  <1>4. CASE StaleEnvelope
    BY <1>4, StaleKeeps
  <1>5. CASE Send
    BY <1>5, EnvelopeSendKeeps
  <1>6. CASE Checkpoint
    BY <1>6, CheckpointKeeps
  <1>7. CASE Sent
    BY <1>7, SentKeeps
  <1>8. CASE PublishEnvelope
    BY <1>8, EnvelopePublishKeeps
  <1>9. CASE PartsUnusable
    BY <1>9, UnusableKeeps
  <1>10. CASE StopUpload
    BY <1>10, StopKeeps
  <1>11. CASE Age
    BY <1>11, AgeKeeps
  <1>12. ASSUME NEW p \in protectedRun.waits, PartConfirmed(p) PROVE ProtectedSound'
    BY <1>12, ConfirmedKeeps
  <1>13. ASSUME NEW p \in flight, ArriveEnvelope(p) PROVE ProtectedSound'
    BY <1>13, EnvelopeArriveKeeps
  <1>14. ASSUME NEW b \in 1 .. Blocks, Edit(b) PROVE ProtectedSound'
    BY <1>14, EditKeeps
  <1>15. CASE Settle
    BY <1>15, SettleKeeps
  <1>16. CASE UNCHANGED protectedVars
    BY <1>16 DEF protectedVars, ProtectedSound
  <1> QED BY <1>1, <1>2, <1>3, <1>4, <1>5, <1>6, <1>7, <1>8, <1>9, <1>10, <1>11, <1>12, <1>13, <1>14, <1>15, <1>16
          DEF ProtectedNext

-----------------------------------------------------------------------------
(***************************************************************************)
(* The contents.  While the record vouches for the source as it is, or an  *)
(* attempt sends whose source has not changed, all that Telegram has or    *)
(* may still receive is of that source.  An attempt that drew the file id  *)
(* is alone with it: whatever is there is what it read.                    *)
(***************************************************************************)
OfVersions(pieces, versions) ==
  \A q \in pieces : q.content = IF q.block = FinalRecord THEN versions ELSE <<versions[q.block]>>
Sending(r) == r.pc \in {"send", "publish"}
\* The record says the source is the one it began with, and has no doubt.
Vouches(p, text) == p # NoProgress /\ p.settled /\ p.stamp = text.stamp
OfSource(pieces, r, text) ==
  /\ OfVersions(pieces, text.block)
  /\ Sending(r) => \A i \in 1 .. BlocksIn(r.next - 1) : r.read[i] = text.block[i]
Known(p, r, text) == Vouches(p, text) \/ (Sending(r) /\ r.steady)
StampsFit(p, r, text) ==
  /\ p # NoProgress => p.stamp <= text.stamp
  /\ r.pc # "idle" => r.stamp <= text.stamp
  /\ r.steady => r.pc # "idle" /\ r.stamp = text.stamp
  /\ Vouches(p, text) => ~text.young
Alone(r, stored, onWay) ==
  onWay = {} /\ OfVersions(stored \cup r.waits, r.read) /\ \A q \in stored \cup r.waits : q.block < r.next
PostsOpen(posted) == \A m \in posted : (m.steady => OpensAs(m, m.source)) /\ (m.anew => OpensAs(m, m.read))

ContentsSound ==
  /\ StampsFit(progress, protectedRun, plaintext)
  /\ Known(progress, protectedRun, plaintext) =>
       OfSource(storedSession \cup flight \cup protectedRun.waits, protectedRun, plaintext)
  /\ protectedRun.anew => Sending(protectedRun) /\ Alone(protectedRun, storedSession, flight)
  /\ PostsOpen(postedFile)

\* What ProtectedSound gives of types.
LEMMA ProtectedTypes ==
  ASSUME ProtectedSound
  PROVE  /\ plaintext \in SourceFile /\ plaintext.stamp \in Nat /\ plaintext.block \in [1 .. Blocks -> Nat]
         /\ progress \in ProgressRecord /\ protectedRun \in UploadRun
         /\ progress.stamp \in Nat /\ protectedRun.stamp \in Nat
         /\ storedSession \cup flight \cup protectedRun.waits \subseteq SentPart
         /\ ~Sending(protectedRun) => protectedRun.waits = {}
         /\ Sending(protectedRun) => Sends(protectedRun, progress, storedSession)
         /\ progress # NoProgress => progress.envelope # 0
  <1>1. /\ plaintext \in SourceFile /\ progress \in ProgressRecord /\ protectedRun \in UploadRun
        /\ ~Sending(protectedRun) => protectedRun.waits = {}
        /\ Sending(protectedRun) => Sends(protectedRun, progress, storedSession)
        /\ progress # NoProgress => progress.envelope # 0
        /\ storedSession \subseteq SentPart /\ flight \subseteq SentPart
    BY DEF ProtectedSound, ProgressFits, RunFits, PartsFit, Sending
  <1>2. protectedRun.waits \subseteq SentPart /\ progress.stamp \in Nat /\ protectedRun.stamp \in Nat
    BY <1>1 DEF UploadRun, ProgressRecord
  <1>3. plaintext.stamp \in Nat /\ plaintext.block \in [1 .. Blocks -> Nat]
    BY <1>1, BlocksAre DEF SourceFile
  <1> QED BY <1>1, <1>2, <1>3

\* A step that keeps the source, posts nothing, adds no part and leaves an
\* attempt that does not send.
LEMMA QuietStep ==
  ASSUME ProtectedSound, ContentsSound, plaintext' = plaintext, postedFile' \in {postedFile, {}},
         storedSession' \cup flight' \cup protectedRun'.waits \subseteq storedSession \cup flight \cup protectedRun.waits,
         progress' # NoProgress => /\ progress # NoProgress /\ progress'.stamp = progress.stamp
                                   /\ progress'.settled = progress.settled,
         ~Sending(protectedRun'), ~protectedRun'.anew,
         protectedRun'.pc # "idle" => protectedRun'.stamp <= plaintext.stamp,
         protectedRun'.steady => protectedRun'.pc # "idle" /\ protectedRun'.stamp = plaintext.stamp
  PROVE  ContentsSound'
  <1>1. Vouches(progress', plaintext) => Vouches(progress, plaintext)
    BY DEF Vouches
  <1>2. StampsFit(progress', protectedRun', plaintext)
    BY <1>1 DEF ContentsSound, StampsFit
  <1>3. Known(progress', protectedRun', plaintext) => Vouches(progress, plaintext)
    BY <1>1 DEF Known
  <1>4. Known(progress', protectedRun', plaintext) =>
           OfSource(storedSession' \cup flight' \cup protectedRun'.waits, protectedRun', plaintext)
    BY <1>3 DEF ContentsSound, Known, OfSource, OfVersions
  <1>5. PostsOpen(postedFile')
    BY DEF ContentsSound, PostsOpen
  <1> QED BY <1>2, <1>4, <1>5 DEF ContentsSound

LEMMA StartContents ==
  ASSUME ProtectedSound, ContentsSound, NEW s \in Secrets, Start(s)
  PROVE  ContentsSound'
  <1>1. /\ UNCHANGED <<plaintext, progress, storedSession, flight>> /\ postedFile' = {}
        /\ protectedRun'.pc = "prepare" /\ protectedRun'.waits = {} /\ protectedRun'.stamp = plaintext.stamp
        /\ ~protectedRun'.anew
    BY DEF Start, NoRun
  <1>2. plaintext.stamp \in Nat
    BY ProtectedTypes
  <1>3. ~Sending(protectedRun') /\ protectedRun'.stamp <= plaintext.stamp
    BY <1>1, <1>2 DEF Sending
  <1> QED BY <1>1, <1>3, QuietStep

LEMMA PrepareContents ==
  ASSUME ProtectedSound, ContentsSound, Prepare
  PROVE  ContentsSound'
  <1>1. /\ protectedRun.pc = "prepare" /\ progress' \in {progress, NoProgress}
        /\ UNCHANGED <<plaintext, storedSession, flight, postedFile>>
        /\ \E e : protectedRun' = [protectedRun EXCEPT !.pc = "load", !.envelope = e]
    BY DEF Prepare, EnvelopeSession
  <1>2. protectedRun \in UploadRun
    BY ProtectedTypes
  <1>3. /\ protectedRun'.pc = "load" /\ protectedRun'.waits = protectedRun.waits
        /\ protectedRun'.stamp = protectedRun.stamp /\ protectedRun'.steady = protectedRun.steady
        /\ protectedRun'.anew = protectedRun.anew
    BY <1>1, <1>2 DEF UploadRun
  <1>4. protectedRun.stamp <= plaintext.stamp /\ (protectedRun.steady => protectedRun.stamp = plaintext.stamp)
    BY <1>1 DEF ContentsSound, StampsFit
  <1>5. ~Sending(protectedRun') /\ ~protectedRun'.anew
    BY <1>1, <1>3 DEF ContentsSound, Sending
  <1> QED BY <1>1, <1>3, <1>4, <1>5, QuietStep

\* Over again with the fingerprint it has, or not at all.
LEMMA RestartContents ==
  ASSUME ProtectedSound, ContentsSound, protectedRun.pc # "idle", protectedRun' \in {NoRun, StartOver},
         progress' = NoProgress, UNCHANGED <<plaintext, flight, postedFile>>, storedSession' \subseteq storedSession
  PROVE  ContentsSound'
  <1>1. /\ NoRun.pc = "idle" /\ NoRun.waits = {} /\ NoRun.steady = FALSE /\ ~NoRun.anew /\ ~StartOver.anew
        /\ StartOver.pc = "prepare" /\ StartOver.waits = {} /\ StartOver.stamp = protectedRun.stamp
        /\ StartOver.steady = protectedRun.steady
    BY DEF NoRun, StartOver
  <1>2. protectedRun.stamp <= plaintext.stamp /\ (protectedRun.steady => protectedRun.stamp = plaintext.stamp)
    BY DEF ContentsSound, StampsFit
  <1>3. ~Sending(protectedRun') /\ ~protectedRun'.anew /\ protectedRun'.waits = {}
    BY <1>1 DEF Sending
  <1>4. /\ protectedRun'.pc # "idle" => protectedRun'.stamp <= plaintext.stamp
        /\ protectedRun'.steady => protectedRun'.pc # "idle" /\ protectedRun'.stamp = plaintext.stamp
    BY <1>1, <1>2
  <1> QED BY <1>3, <1>4, QuietStep

LEMMA StopContents ==
  ASSUME ProtectedSound, ContentsSound, StopUpload
  PROVE  ContentsSound'
  <1>1. /\ UNCHANGED <<plaintext, progress, storedSession, postedFile>> /\ protectedRun' = NoRun
        /\ flight' = flight \cup protectedRun.waits
    BY DEF StopUpload, RunEnds
  <1>2. NoRun.pc = "idle" /\ NoRun.waits = {} /\ NoRun.steady = FALSE /\ ~NoRun.anew
    BY DEF NoRun
  <1>3. ~Sending(protectedRun')
    BY <1>1, <1>2 DEF Sending
  <1> QED BY <1>1, <1>2, <1>3, QuietStep

\* A continued attempt takes up what the record vouches for and its own
\* reading confirms; any other begins with nothing at Telegram.
LEMMA LoadContents ==
  ASSUME ProtectedSound, ContentsSound, LoadEnvelope
  PROVE  ContentsSound'
  <1>0. /\ protectedRun.pc = "load" /\ protectedRun \in UploadRun /\ progress \in ProgressRecord
        /\ protectedRun.waits = {} /\ protectedRun.next = 1 /\ protectedRun.done = 0 /\ protectedRun.read = <<>>
        /\ protectedRun.anew = FALSE \/ protectedRun.anew = TRUE
        /\ UNCHANGED <<plaintext, secretOf, postedFile>>
    BY ProtectedTypes DEF LoadEnvelope, ProtectedSound, RunFits, UploadRun
  <1>1. PICK session : session = EnvelopeSession(protectedRun.stamp)
    OBVIOUS
  <1>2. /\ session = progress \/ session = NoProgress
        /\ session # NoProgress => UsableProgress(protectedRun.stamp)
    BY <1>1 DEF EnvelopeSession
  <1>3. protectedRun.stamp <= plaintext.stamp /\ (protectedRun.steady => protectedRun.stamp = plaintext.stamp)
    BY <1>0 DEF ContentsSound, StampsFit
  <1>4. CASE /\ SameUpload(session) /\ SamePrefix(session)
             /\ protectedRun' = [protectedRun EXCEPT !.pc = "send", !.done = session.done,
                              !.next = session.done + 1, !.read = session.prefix, !.resumed = session.done > 0]
             /\ progress' = session /\ UNCHANGED <<storedSession, flight>>
    <2>1. /\ session = progress /\ progress # NoProgress /\ progress.settled /\ progress.stamp = protectedRun.stamp
      BY <1>2, <1>4 DEF SameUpload, UsableProgress
    <2>2. progress.done \in 0 .. FinalRecord /\ (progress.done + 1) - 1 = progress.done
      BY <1>0, BlocksAre DEF ProgressRecord
    <2>3. /\ protectedRun'.pc = "send" /\ protectedRun'.next = progress.done + 1 /\ protectedRun'.read = progress.prefix
          /\ protectedRun'.waits = {} /\ protectedRun'.stamp = protectedRun.stamp
          /\ protectedRun'.steady = protectedRun.steady /\ protectedRun'.anew = protectedRun.anew
      BY <1>0, <1>4, <2>1 DEF UploadRun
    <2>4. ~protectedRun'.anew
      BY <1>0, <2>3 DEF ContentsSound, Sending
    <2>5. Known(progress', protectedRun', plaintext) => Vouches(progress, plaintext)
      BY <1>3, <1>4, <2>1, <2>3 DEF Known, Vouches
    <2>6. \A i \in 1 .. BlocksIn(protectedRun'.next - 1) : protectedRun'.read[i] = plaintext.block[i]
      BY <1>4, <2>1, <2>2, <2>3 DEF SamePrefix
    <2>7. Known(progress', protectedRun', plaintext) =>
             OfSource(storedSession \cup flight \cup protectedRun'.waits, protectedRun', plaintext)
      BY <1>0, <2>3, <2>5, <2>6 DEF ContentsSound, Known, OfSource
    <2>8. StampsFit(progress', protectedRun', plaintext)
      BY <1>0, <1>3, <1>4, <2>1, <2>3 DEF ContentsSound, StampsFit
    <2> QED BY <1>0, <1>4, <2>3, <2>4, <2>7, <2>8 DEF ContentsSound
  <1>5. CASE /\ ~SameUpload(session)
             /\ protectedRun' = [protectedRun EXCEPT !.pc = "send", !.anew = TRUE]
             /\ progress' = NewProgress(protectedRun.stamp = plaintext.stamp /\ ~plaintext.young)
             /\ storedSession' = {} /\ flight' = {}
    <2>1. /\ protectedRun'.pc = "send" /\ protectedRun'.next = 1 /\ protectedRun'.read = <<>> /\ protectedRun'.waits = {}
          /\ protectedRun'.stamp = protectedRun.stamp /\ protectedRun'.steady = protectedRun.steady
      BY <1>0, <1>5 DEF UploadRun
    <2>2. /\ progress'.stamp = protectedRun.stamp
          /\ progress'.settled => protectedRun.stamp = plaintext.stamp /\ ~plaintext.young
      BY <1>5 DEF NewProgress, NoProgress
    <2>3. StampsFit(progress', protectedRun', plaintext)
      BY <1>0, <1>3, <2>1, <2>2 DEF StampsFit, Vouches
    <2>4. OfSource({}, protectedRun', plaintext)
      BY <2>1, BlocksInIs DEF OfSource, OfVersions
    <2>5. Sending(protectedRun') /\ Alone(protectedRun', {}, {})
      BY <2>1 DEF Sending, Alone, OfVersions
    <2>6. PostsOpen(postedFile')
      BY <1>0 DEF ContentsSound
    <2> QED BY <1>0, <1>5, <2>1, <2>3, <2>4, <2>5, <2>6 DEF ContentsSound
  <1> QED BY <1>1, <1>4, <1>5 DEF LoadEnvelope

\* What the next part says, of the whole source or of what was read so far.
LEMMA PartOf ==
  ASSUME NEW e, NEW b \in 1 .. FinalRecord, NEW read, NEW versions,
         b = FinalRecord => read = versions, b # FinalRecord => read[b] = versions[b]
  PROVE  OfVersions({EnvelopePart(e, read, b)}, versions) /\ EnvelopePart(e, read, b).block = b
  BY DEF OfVersions, EnvelopePart

LEMMA SendContents ==
  ASSUME ProtectedSound, ContentsSound, Send
  PROVE  ContentsSound'
  <1>0. /\ protectedRun.pc = "send" /\ Sending(protectedRun) /\ protectedRun \in UploadRun
        /\ Sends(protectedRun, progress, storedSession)
        /\ UNCHANGED <<plaintext, progress, storedSession, flight, postedFile>>
    BY ProtectedTypes DEF Send, Sending
  <1>1. PICK b : b = protectedRun.next
    OBVIOUS
  <1>2. PICK read : read = [i \in 1 .. BlocksIn(b) |-> IF i < b THEN protectedRun.read[i] ELSE plaintext.block[i]]
    OBVIOUS
  <1>3. PICK part : part = EnvelopePart(protectedRun.envelope, read, b)
    OBVIOUS
  <1>4. b \in 1 .. FinalRecord /\ b \in Nat /\ (b + 1) - 1 = b /\ b - 1 \in 0 .. Blocks /\ BlocksIn(b - 1) = b - 1
    BY <1>0, <1>1, BlocksAre, BlocksInIs DEF Send, UploadRun
  <1>5. /\ protectedRun'.pc = "send" /\ protectedRun'.next = b + 1 /\ protectedRun'.read = read
        /\ protectedRun'.waits = protectedRun.waits \cup {part} /\ protectedRun'.stamp = protectedRun.stamp
        /\ protectedRun'.steady = protectedRun.steady /\ protectedRun'.anew = protectedRun.anew
    BY <1>0, <1>1, <1>2, <1>3 DEF Send, UploadRun
  <1>6. /\ b # FinalRecord => BlocksIn(b) = b
        /\ b = FinalRecord => BlocksIn(b) = Blocks /\ BlocksIn(b - 1) = Blocks
    BY <1>4, BlocksAre, BlocksInIs
  <1>7. plaintext.block \in [1 .. Blocks -> Nat]
    BY ProtectedTypes
  <1>8. Sending(protectedRun')
    BY <1>5 DEF Sending
  <1>9. StampsFit(progress, protectedRun', plaintext)
    BY <1>0, <1>5 DEF ContentsSound, StampsFit
  <1>10. ASSUME Known(progress, protectedRun', plaintext)
         PROVE  OfSource(storedSession \cup flight \cup protectedRun'.waits, protectedRun', plaintext)
    <2>1. Known(progress, protectedRun, plaintext)
      BY <1>0, <1>5, <1>10 DEF Known
    <2>2. /\ OfVersions(storedSession \cup flight \cup protectedRun.waits, plaintext.block)
          /\ \A i \in 1 .. (b - 1) : protectedRun.read[i] = plaintext.block[i]
      BY <1>0, <1>1, <1>4, <2>1 DEF ContentsSound, OfSource
    <2>3. \A i \in 1 .. BlocksIn(b) : read[i] = plaintext.block[i]
      <3> SUFFICES ASSUME NEW i \in 1 .. BlocksIn(b) PROVE read[i] = plaintext.block[i]
        OBVIOUS
      <3>1. i \in Nat /\ i >= 1
        BY <1>4, BlocksInIs, BlocksAre
      <3> QED BY <1>2, <1>4, <2>2, <3>1
    <2>4. b = FinalRecord => read = plaintext.block
      BY <1>2, <1>6, <1>7, <2>3
    <2>5. b # FinalRecord => read[b] = plaintext.block[b]
      BY <1>4, <1>6, <2>3
    <2>6. OfVersions({part}, plaintext.block)
      BY <1>3, <1>4, <2>4, <2>5, PartOf
    <2> QED BY <1>4, <1>5, <2>2, <2>3, <2>6 DEF OfSource, OfVersions
  <1>11. ASSUME protectedRun'.anew
         PROVE  Alone(protectedRun', storedSession, flight)
    <2>1. Alone(protectedRun, storedSession, flight)
      BY <1>5, <1>11 DEF ContentsSound
    <2>2. \A q \in storedSession \cup protectedRun.waits : q.block \in 1 .. FinalRecord /\ q.block < b
      BY <1>1, <2>1, ProtectedTypes DEF Alone, SentPart
    <2>3. ASSUME NEW q \in storedSession \cup protectedRun.waits
          PROVE  q.content = IF q.block = FinalRecord THEN read ELSE <<read[q.block]>>
      <3>1. q.block # FinalRecord /\ q.block \in 1 .. BlocksIn(b) /\ q.block < b
        BY <1>4, <1>6, <2>2, BlocksAre
      <3>2. read[q.block] = protectedRun.read[q.block]
        BY <1>2, <3>1
      <3>3. q.content = <<protectedRun.read[q.block]>>
        BY <2>1, <3>1 DEF Alone, OfVersions
      <3> QED BY <3>1, <3>2, <3>3
    <2>4. OfVersions({part}, read) /\ part.block = b
      BY <1>3, <1>4, PartOf
    <2>5. OfVersions(storedSession \cup protectedRun'.waits, read)
      BY <1>5, <2>3, <2>4 DEF OfVersions
    <2>6. \A q \in storedSession \cup protectedRun'.waits : q.block < b + 1
      BY <1>4, <1>5, <2>2, <2>4, BlocksAre
    <2> QED BY <1>5, <2>1, <2>5, <2>6 DEF Alone
  <1> QED BY <1>0, <1>8, <1>9, <1>10, <1>11 DEF ContentsSound

\* A part that arrives was among those under way.
LEMMA OverIs == ASSUME NEW p PROVE Over(p) \subseteq storedSession \cup {p}
  BY DEF Over

LEMMA ConfirmedContents ==
  ASSUME ProtectedSound, ContentsSound, NEW p \in protectedRun.waits, PartConfirmed(p)
  PROVE  ContentsSound'
  <1>0. /\ protectedRun.pc = "send" /\ protectedRun \in UploadRun
        /\ storedSession' = Over(p) /\ UNCHANGED <<plaintext, progress, flight, postedFile>>
    BY ProtectedTypes DEF PartConfirmed
  <1>1. \E done : protectedRun' = [protectedRun EXCEPT !.waits = protectedRun.waits \ {p}, !.done = done]
    BY DEF PartConfirmed
  <1>2. /\ protectedRun'.pc = "send" /\ protectedRun'.next = protectedRun.next /\ protectedRun'.read = protectedRun.read
        /\ protectedRun'.waits = protectedRun.waits \ {p} /\ protectedRun'.stamp = protectedRun.stamp
        /\ protectedRun'.steady = protectedRun.steady /\ protectedRun'.anew = protectedRun.anew
    BY <1>0, <1>1 DEF UploadRun
  <1>3. storedSession' \cup protectedRun'.waits \subseteq storedSession \cup protectedRun.waits
    BY <1>0, <1>2, OverIs
  <1>4. Sending(protectedRun) /\ Sending(protectedRun')
    BY <1>0, <1>2 DEF Sending
  <1>5. StampsFit(progress, protectedRun', plaintext)
    BY <1>0, <1>2 DEF ContentsSound, StampsFit
  <1>6. Known(progress, protectedRun', plaintext) =>
           OfSource(storedSession' \cup flight \cup protectedRun'.waits, protectedRun', plaintext)
    BY <1>2, <1>3, <1>4 DEF ContentsSound, Known, OfSource, OfVersions
  <1>7. protectedRun'.anew => Alone(protectedRun', storedSession', flight)
    BY <1>2, <1>3 DEF ContentsSound, Alone, OfVersions
  <1> QED BY <1>0, <1>4, <1>5, <1>6, <1>7 DEF ContentsSound

LEMMA EnvelopeArriveContents ==
  ASSUME ProtectedSound, ContentsSound, NEW p \in flight, ArriveEnvelope(p)
  PROVE  ContentsSound'
  <1>0. /\ storedSession' \in {storedSession, Over(p)} /\ flight' = flight \ {p}
        /\ UNCHANGED <<plaintext, progress, protectedRun, postedFile>>
    BY DEF ArriveEnvelope
  <1>1. storedSession' \cup flight' \subseteq storedSession \cup flight
    BY <1>0, OverIs
  <1>2. Known(progress, protectedRun, plaintext) =>
           OfSource(storedSession' \cup flight' \cup protectedRun.waits, protectedRun, plaintext)
    BY <1>1 DEF ContentsSound, OfSource, OfVersions
  <1>3. ~protectedRun.anew
    BY DEF ContentsSound, Alone
  <1> QED BY <1>0, <1>2, <1>3 DEF ContentsSound

\* Only how much the record counts as sent changes, or how old it is.
LEMMA RecordContents ==
  ASSUME ProtectedSound, ContentsSound, progress # NoProgress, progress'.stamp = progress.stamp,
         progress'.settled = progress.settled, UNCHANGED <<plaintext, storedSession, flight, protectedRun, postedFile>>
  PROVE  ContentsSound'
  <1>1. Vouches(progress', plaintext) => Vouches(progress, plaintext)
    BY DEF Vouches
  <1>2. StampsFit(progress', protectedRun, plaintext)
    BY <1>1 DEF ContentsSound, StampsFit
  <1>3. Known(progress', protectedRun, plaintext) => Known(progress, protectedRun, plaintext)
    BY <1>1 DEF Known
  <1> QED BY <1>2, <1>3 DEF ContentsSound

LEMMA SentContents ==
  ASSUME ProtectedSound, ContentsSound, Sent
  PROVE  ContentsSound'
  <1>0. /\ protectedRun.pc = "send" /\ protectedRun \in UploadRun
        /\ protectedRun' = [protectedRun EXCEPT !.pc = "publish"]
        /\ UNCHANGED <<plaintext, progress, storedSession, flight, postedFile>>
    BY ProtectedTypes DEF Sent
  <1>1. /\ protectedRun'.pc = "publish" /\ protectedRun'.next = protectedRun.next /\ protectedRun'.read = protectedRun.read
        /\ protectedRun'.waits = protectedRun.waits /\ protectedRun'.stamp = protectedRun.stamp
        /\ protectedRun'.steady = protectedRun.steady /\ protectedRun'.anew = protectedRun.anew
    BY <1>0 DEF UploadRun
  <1>2. Sending(protectedRun) /\ Sending(protectedRun')
    BY <1>0, <1>1 DEF Sending
  <1>3. StampsFit(progress, protectedRun', plaintext)
    BY <1>0, <1>1 DEF ContentsSound, StampsFit
  <1>4. Known(progress, protectedRun', plaintext) =>
           OfSource(storedSession \cup flight \cup protectedRun'.waits, protectedRun', plaintext)
    BY <1>1, <1>2 DEF ContentsSound, Known, OfSource
  <1>5. protectedRun'.anew => Alone(protectedRun', storedSession, flight)
    BY <1>1 DEF ContentsSound, Alone
  <1> QED BY <1>0, <1>2, <1>3, <1>4, <1>5 DEF ContentsSound

\* Every part of an envelope, each of these versions, is the file.
LEMMA PartsAre ==
  ASSUME NEW pieces, pieces \subseteq SentPart, NEW e, \A q \in pieces : q.envelope = e,
         \A b \in 1 .. FinalRecord : StoresBlock(pieces, b), NEW versions, OfVersions(pieces, versions)
  PROVE  pieces = {EnvelopePart(e, versions, b) : b \in 1 .. FinalRecord}
  <1>1. ASSUME NEW q \in pieces PROVE q.block \in 1 .. FinalRecord /\ q = EnvelopePart(e, versions, q.block)
    <2>1. q = [block |-> q.block, envelope |-> q.envelope, content |-> q.content] /\ q.block \in 1 .. FinalRecord
      BY DEF SentPart
    <2>2. q.envelope = e /\ q.content = IF q.block = FinalRecord THEN versions ELSE <<versions[q.block]>>
      BY DEF OfVersions
    <2> QED BY <2>1, <2>2 DEF EnvelopePart
  <1>2. ASSUME NEW b \in 1 .. FinalRecord PROVE EnvelopePart(e, versions, b) \in pieces
    BY <1>1 DEF StoresBlock
  <1> QED BY <1>1, <1>2

LEMMA EnvelopePublishContents ==
  ASSUME ProtectedSound, ContentsSound, PublishEnvelope
  PROVE  ContentsSound'
  <1>0. /\ protectedRun.pc = "publish" /\ Sending(protectedRun) /\ progress' \in {progress, NoProgress}
        /\ protectedRun' = NoRun /\ UNCHANGED <<plaintext, storedSession, flight>>
        /\ Sends(protectedRun, progress, storedSession) /\ storedSession \subseteq SentPart
    BY ProtectedTypes DEF PublishEnvelope, Sending
  <1>1. NoRun.pc = "idle" /\ NoRun.waits = {} /\ NoRun.steady = FALSE /\ ~NoRun.anew /\ ~Sending(NoRun)
    BY DEF NoRun, Sending
  <1>2. Vouches(progress', plaintext) => Vouches(progress, plaintext)
    BY <1>0 DEF Vouches
  <1>3. StampsFit(progress', NoRun, plaintext)
    BY <1>0, <1>1, <1>2 DEF ContentsSound, StampsFit
  <1>4. Known(progress', NoRun, plaintext) => OfSource(storedSession \cup flight \cup NoRun.waits, NoRun, plaintext)
    BY <1>1, <1>2 DEF ContentsSound, Known, OfSource, OfVersions
  <1>5. PICK m \in postedFile' : /\ postedFile' = {m} /\ m.envelope = protectedRun.envelope /\ m.parts = storedSession
                                 /\ m.read = protectedRun.read /\ m.source = plaintext.block
                                 /\ m.anew = protectedRun.anew /\ m.steady = protectedRun.steady
    BY DEF PublishEnvelope
  <1>6. /\ \A q \in storedSession : q.envelope = protectedRun.envelope
        /\ \A b \in 1 .. FinalRecord : StoresBlock(storedSession, b)
    BY <1>0, NothingYet DEF ProtectedSound, ProgressFits, RunFits, Sends
  <1>7. m.steady => OpensAs(m, m.source)
    <2>1. m.steady => OfVersions(storedSession, plaintext.block)
      BY <1>0, <1>5 DEF ContentsSound, Known, OfSource, OfVersions
    <2> QED BY <1>0, <1>5, <1>6, <2>1, PartsAre DEF OpensAs
  <1>8. m.anew => OpensAs(m, m.read)
    <2>1. m.anew => OfVersions(storedSession, protectedRun.read)
      BY <1>5 DEF ContentsSound, Alone, OfVersions
    <2> QED BY <1>0, <1>5, <1>6, <2>1, PartsAre DEF OpensAs
  <1>9. PostsOpen(postedFile')
    BY <1>5, <1>7, <1>8 DEF PostsOpen
  <1> QED BY <1>0, <1>1, <1>3, <1>4, <1>9 DEF ContentsSound

\* A source that changes takes the attempt's word away, and the record's:
\* while its stamp can stay, the record does not vouch for it.
LEMMA EditContents ==
  ASSUME ProtectedSound, ContentsSound, NEW b \in 1 .. Blocks, Edit(b)
  PROVE  ContentsSound'
  <1>0. /\ UNCHANGED <<progress, storedSession, flight, postedFile>>
        /\ protectedRun' = [protectedRun EXCEPT !.steady = FALSE]
        /\ plaintext'.young /\ plaintext'.stamp \in {plaintext.stamp, plaintext.stamp + 1}
        /\ plaintext.young \/ plaintext'.stamp = plaintext.stamp + 1
    BY DEF Edit
  <1>1. plaintext.stamp \in Nat /\ progress.stamp \in Nat /\ protectedRun \in UploadRun /\ protectedRun.stamp \in Nat
    BY ProtectedTypes
  <1>2. /\ protectedRun'.pc = protectedRun.pc /\ protectedRun'.next = protectedRun.next
        /\ protectedRun'.read = protectedRun.read /\ protectedRun'.waits = protectedRun.waits
        /\ protectedRun'.stamp = protectedRun.stamp /\ ~protectedRun'.steady
        /\ protectedRun'.anew = protectedRun.anew
    BY <1>0, <1>1 DEF UploadRun
  <1>3. StampsFit(progress, protectedRun, plaintext)
    BY DEF ContentsSound
  <1>4. ~Vouches(progress, plaintext')
    <2>1. CASE plaintext'.stamp = plaintext.stamp + 1
      BY <1>1, <1>3, <2>1 DEF StampsFit, Vouches
    <2>2. CASE plaintext.young /\ plaintext'.stamp = plaintext.stamp
      BY <1>3, <2>2 DEF StampsFit, Vouches
    <2> QED BY <1>0, <2>1, <2>2
  <1>5. StampsFit(progress, protectedRun', plaintext')
    BY <1>0, <1>1, <1>2, <1>3, <1>4 DEF StampsFit
  <1>6. ~Known(progress, protectedRun', plaintext')
    BY <1>2, <1>4 DEF Known
  <1>7. protectedRun'.anew => Sending(protectedRun') /\ Alone(protectedRun', storedSession, flight)
    BY <1>2 DEF ContentsSound, Sending, Alone
  <1> QED BY <1>0, <1>5, <1>6, <1>7 DEF ContentsSound

LEMMA SettleContents ==
  ASSUME ProtectedSound, ContentsSound, Settle
  PROVE  ContentsSound'
  <1>1. /\ plaintext'.stamp = plaintext.stamp /\ plaintext'.block = plaintext.block /\ ~plaintext'.young
        /\ UNCHANGED <<progress, storedSession, flight, protectedRun, postedFile>>
    BY ProtectedTypes DEF Settle, SourceFile
  <1>2. Known(progress, protectedRun, plaintext') <=> Known(progress, protectedRun, plaintext)
    BY <1>1 DEF Known, Vouches
  <1>3. StampsFit(progress, protectedRun, plaintext')
    BY <1>1 DEF ContentsSound, StampsFit
  <1>4. Known(progress, protectedRun, plaintext') =>
           OfSource(storedSession \cup flight \cup protectedRun.waits, protectedRun, plaintext')
    BY <1>1, <1>2 DEF ContentsSound, OfSource
  <1> QED BY <1>1, <1>3, <1>4 DEF ContentsSound

LEMMA ContentsStart == ProtectedInit => ContentsSound
  <1> SUFFICES ASSUME ProtectedInit PROVE ContentsSound
    OBVIOUS
  <1>1. progress = NoProgress /\ protectedRun = NoRun /\ postedFile = {} /\ storedSession = {} /\ flight = {}
    BY DEF ProtectedInit
  <1>2. NoRun.pc = "idle" /\ NoRun.waits = {} /\ NoRun.steady = FALSE /\ ~NoRun.anew
    BY DEF NoRun
  <1> QED BY <1>1, <1>2 DEF ContentsSound, StampsFit, Vouches, Known, Sending, PostsOpen

LEMMA ContentsStep == ProtectedSound /\ ContentsSound /\ [ProtectedNext]_protectedVars => ContentsSound'
  <1> SUFFICES ASSUME ProtectedSound, ContentsSound, [ProtectedNext]_protectedVars PROVE ContentsSound'
    OBVIOUS
  <1>1. ASSUME NEW s \in Secrets, Start(s) PROVE ContentsSound'
    BY <1>1, StartContents
  <1>2. CASE Prepare
    BY <1>2, PrepareContents
  <1>3. CASE LoadEnvelope
    BY <1>3, LoadContents
  <1>4. CASE StaleEnvelope
    BY <1>4, RestartContents DEF StaleEnvelope
  <1>5. CASE Send
    BY <1>5, SendContents
  <1>6. CASE Checkpoint
    <2>1. /\ UNCHANGED <<plaintext, storedSession, flight, protectedRun, postedFile>> /\ Sending(protectedRun)
          /\ \E done, prefix : progress' = [progress EXCEPT !.done = done, !.prefix = prefix]
      BY <1>6 DEF Checkpoint, Sending
    <2>2. progress \in ProgressRecord /\ progress # NoProgress
      BY <2>1, ProtectedTypes, NothingYet DEF ProtectedSound, RunFits, Sends, Sending
    <2>3. progress'.stamp = progress.stamp /\ progress'.settled = progress.settled
      BY <2>1, <2>2 DEF ProgressRecord
    <2> QED BY <2>1, <2>2, <2>3, RecordContents
  <1>7. CASE Sent
    BY <1>7, SentContents
  <1>8. CASE PublishEnvelope
    BY <1>8, EnvelopePublishContents
  <1>9. CASE PartsUnusable
    BY <1>9, RestartContents DEF PartsUnusable
  <1>10. CASE StopUpload
    BY <1>10, StopContents
  <1>11. CASE Age
    <2>1. /\ UNCHANGED <<plaintext, storedSession, flight, protectedRun, postedFile>> /\ progress # NoProgress
          /\ progress' = [progress EXCEPT !.fresh = FALSE]
      BY <1>11 DEF Age, NoProgress
    <2>2. progress'.stamp = progress.stamp /\ progress'.settled = progress.settled
      BY <2>1, ProtectedTypes DEF ProgressRecord
    <2> QED BY <2>1, <2>2, RecordContents
  <1>12. ASSUME NEW p \in protectedRun.waits, PartConfirmed(p) PROVE ContentsSound'
    BY <1>12, ConfirmedContents
  <1>13. ASSUME NEW p \in flight, ArriveEnvelope(p) PROVE ContentsSound'
    BY <1>13, EnvelopeArriveContents
  <1>14. ASSUME NEW b \in 1 .. Blocks, Edit(b) PROVE ContentsSound'
    BY <1>14, EditContents
  <1>15. CASE Settle
    BY <1>15, SettleContents
  <1>16. CASE UNCHANGED protectedVars
    BY <1>16 DEF protectedVars, ContentsSound
  <1> QED BY <1>1, <1>2, <1>3, <1>4, <1>5, <1>6, <1>7, <1>8, <1>9, <1>10, <1>11, <1>12, <1>13, <1>14, <1>15, <1>16
          DEF ProtectedNext

LEMMA ProtectedSoundIs == ProtectedSound /\ ContentsSound => ProtectedInv
  <1> SUFFICES ASSUME ProtectedSound, ContentsSound PROVE ProtectedInv
    OBVIOUS
  <1>1. Envelopes = 1 .. Len(secretOf) /\ Cardinality(Envelopes) = Len(secretOf) /\ Len(secretOf) \in Nat
    BY EnvelopesAre
  <1>2. plaintext.stamp \in 1 .. (MaxEdits + 1) /\ plaintext.edits \in 0 .. MaxEdits
    BY DEF ProtectedSound, SourceFile
  <1>3. progress.envelope \in Envelopes \cup {0} /\ progress.done \in 0 .. FinalRecord
    BY <1>1 DEF ProtectedSound, ProgressFits, ProgressRecord
  <1>4. \A q \in storedSession \cup flight : q.block \in 1 .. FinalRecord /\ q.envelope \in Envelopes
    BY <1>1 DEF ProtectedSound, PartsFit, SentPart
  <1>5. \A q \in protectedRun.waits : q.block \in 1 .. FinalRecord /\ q.envelope \in Envelopes
    BY <1>1 DEF ProtectedSound, RunFits, Sends, UploadRun, SentPart
  <1>6. PublishedDecrypts
    BY DEF ProtectedSound, PostsFit, ContentsSound, PostsOpen, PublishedDecrypts
  <1> QED BY <1>1, <1>2, <1>3, <1>4, <1>5, <1>6 DEF ProtectedInv, ProtectedTypeOK

(***************************************************************************)
(* A published protected file opens with the passphrase its upload was     *)
(* given, and is there, final record included, under the one envelope its  *)
(* message carries.  If the source did not change while the attempt ran it *)
(* opens as that source, and if the attempt continued nothing it opens as  *)
(* what the attempt read: over interruptions, other passphrases, earlier   *)
(* versions of the source and parts that arrive late                       *)
(* (resumed_envelope_session, session, verify_final_record).               *)
(***************************************************************************)
THEOREM ProtectedInvariant == ProtectedSpec => []ProtectedInv
  <1>1. ProtectedInit => ProtectedSound /\ ContentsSound
    BY ProtectedStarts, ContentsStart
  <1>2. (ProtectedSound /\ ContentsSound) /\ [ProtectedNext]_protectedVars => (ProtectedSound /\ ContentsSound)'
    BY ProtectedStep, ContentsStep
  <1>3. ProtectedSound /\ ContentsSound => ProtectedInv
    BY ProtectedSoundIs
  <1> QED BY <1>1, <1>2, <1>3, PTL DEF ProtectedSpec

-----------------------------------------------------------------------------
(***************************************************************************)
(* Media responses.  The body is a run of positions from the first byte    *)
(* selected; the next byte taken is the next one wanted, and what the      *)
(* records before the next one hold of the range is in the body.           *)
(***************************************************************************)
MediaPhases == {"idle", "asked", "refused", "streaming", "aborted", "done"}
Source == [next : Nat, skip : Nat, left : Nat]
Pair(s) == s \in Seq(Int) /\ Len(s) = 2 /\ s[1] \in Int /\ s[2] \in Int

\* Consecutive positions from a on.
RunOf(s, a) == s \in Seq(Int) /\ \A k \in 1 .. Len(s) : s[k] = a + k - 1

Wants(s) ==
  /\ Pair(s) /\ Wanted = s[1] .. s[2]
  /\ 0 <= s[1] /\ s[1] <= s[2] + 1 /\ s[2] < ask.size /\ (ask.size # 0 => s[1] <= s[2])

Asked(s) == s[2] - s[1] + 1

\* How many bytes the records before rec hold of the range.
Decrypted ==
  IF rec = FirstRecord(sel) THEN 0 ELSE Least(sel[2] + 1, rec * RecordLength) - sel[1]

RecordsFit ==
  /\ ask.size # 0 /\ rec \in FirstRecord(sel) .. (LastRecord(sel) + 1)
  /\ rec # FirstRecord(sel) => sel[1] <= rec * RecordLength
  /\ Len(body) = Decrypted
  /\ \A k \in 1 .. Len(body) : body[k] \div RecordLength # ask.bad
  /\ (WholeFile(sel) /\ rec > LastRecord(sel)) => ask.bad # Records(ask.size)

\* The body is a prefix of the range; for a source in one piece, what is left
\* to take makes it whole, and the next byte taken is the next one wanted.
Answers ==
  /\ Wants(sel) /\ RunOf(body, sel[1]) /\ Len(body) <= Asked(sel)
  /\ ask.kind = "protected" => RecordsFit

SourceFits ==
  /\ src.left > 0 => /\ src.next + src.skip = sel[1] + Len(body)
                     /\ Len(body) + src.left = Asked(sel)
  /\ src.left = 0 => Len(body) = Asked(sel) \/ (ask.kind = "dav" /\ ask.lost # 0)

MediaSound ==
  /\ ask \in Asks /\ Pair(sel) /\ rec \in Nat /\ charged \in BOOLEAN /\ src \in Source /\ phase \in MediaPhases
  /\ phase \in {"idle", "asked", "refused"} => body = <<>>
  /\ phase = "refused" => Wanted = {} \/ ask.size = 0
  /\ phase \in {"streaming", "aborted", "done"} => Answers
  /\ (phase = "streaming" /\ ask.kind # "protected") => SourceFits
  /\ phase = "done" => charged /\ (Len(body) = Asked(sel) \/ (ask.kind = "dav" /\ ask.lost # 0))

-----------------------------------------------------------------------------
LEMMA StreamConstants ==
  /\ RecordLength \in Nat /\ RecordLength > 0 /\ Alignment \in Nat /\ Alignment > 0 /\ SourceChunk \in Nat /\ SourceChunk > 0
  /\ MaxSize \in Nat /\ MaxNumber \in Nat /\ HeaderLength \in Nat /\ TagLength \in Nat /\ FinalLength \in Nat
  <1>1. HeaderLength \in Nat /\ TagLength \in Nat
    BY MediaStreamAssumption, Zenon DEF MediaStreamAssumption
  <1>2. \A n \in {MaxSize, MaxNumber, SourceChunk, Alignment, RecordLength, FinalLength} : n \in Nat \ {0}
    BY MediaStreamAssumption, Zenon DEF MediaStreamAssumption
  <1>3. \A n \in {MaxSize, MaxNumber, SourceChunk, Alignment, RecordLength, FinalLength} : n \in Nat /\ n > 0
    BY <1>2
  <1>4. RecordLength \in Nat /\ RecordLength > 0 /\ Alignment \in Nat /\ Alignment > 0
    BY <1>3
  <1>5. SourceChunk \in Nat /\ SourceChunk > 0 /\ MaxSize \in Nat /\ MaxNumber \in Nat /\ FinalLength \in Nat
    BY <1>3
  <1> QED BY <1>1, <1>4, <1>5

LEMMA DivIs ==
  ASSUME NEW x \in Nat, NEW n \in Nat, n > 0
  PROVE  /\ x \div n \in Nat /\ x % n \in Nat /\ x = (x \div n) * n + (x % n)
         /\ (x \div n) * n <= x /\ x < (x \div n) * n + n
  <1>1. x \div n \in Nat /\ x % n \in Nat /\ x % n < n
    OBVIOUS
  <1>2. x = n * (x \div n) + (x % n)
    OBVIOUS
  <1>3. PICK q \in Nat, r \in Nat : q = x \div n /\ r = x % n
    BY <1>1
  <1>4. n * q = q * n /\ q * n \in Nat
    OBVIOUS
  <1> QED BY <1>1, <1>2, <1>3, <1>4

LEMMA TimesGrows ==
  ASSUME NEW a \in Nat, NEW b \in Nat, NEW n \in Nat, a <= b
  PROVE  a * n <= b * n /\ a * n \in Nat /\ b * n \in Nat
  <1>1. PICK d \in Nat : b = a + d
    <2>1. b - a \in Nat /\ b = a + (b - a)
      OBVIOUS
    <2> QED BY <2>1
  <1>2. (a + d) * n = a * n + d * n
    OBVIOUS
  <1>3. a * n \in Nat /\ d * n \in Nat
    OBVIOUS
  <1> QED BY <1>1, <1>2, <1>3

LEMMA DivUnique ==
  ASSUME NEW x \in Nat, NEW q \in Nat, NEW n \in Nat, n > 0, q * n <= x, x < q * n + n
  PROVE  x \div n = q
  <1>1. /\ x \div n \in Nat /\ (x \div n) * n <= x /\ x < (x \div n) * n + n
    BY DivIs
  <1>2. PICK r \in Nat : r = x \div n
    BY <1>1
  <1>3. CASE r < q
    <2>1. r + 1 \in Nat /\ r + 1 <= q
      BY <1>3
    <2>2. (r + 1) * n <= q * n
      BY <2>1, TimesGrows
    <2>3. (r + 1) * n = r * n + n
      OBVIOUS
    <2>4. r * n \in Nat /\ q * n \in Nat
      OBVIOUS
    <2> QED BY <1>1, <1>2, <2>2, <2>3, <2>4
  <1>4. CASE q < r
    <2>1. q + 1 \in Nat /\ q + 1 <= r
      BY <1>4
    <2>2. (q + 1) * n <= r * n
      BY <2>1, TimesGrows
    <2>3. (q + 1) * n = q * n + n
      OBVIOUS
    <2>4. r * n \in Nat /\ q * n \in Nat
      OBVIOUS
    <2> QED BY <1>1, <1>2, <2>2, <2>3, <2>4
  <1> QED BY <1>2, <1>3, <1>4

LEMMA AskIs ==
  ASSUME ask \in Asks
  PROVE  /\ ask.size \in Nat /\ ask.first \in Int /\ ask.last \in Int /\ ask.first >= -1 /\ ask.last >= -1
         /\ ask.lost \in 0 .. 1 /\ ask.kind \in {"plain", "protected", "dav"} /\ ask.bad \in Int
         /\ ask.kind = "dav" => 0 <= ask.first /\ ask.first <= ask.last /\ ask.first < ask.size
  BY StreamConstants DEF Asks, NoNumber

LEMMA PairIs ==
  ASSUME NEW a \in Int, NEW b \in Int
  PROVE  Pair(<<a, b>>) /\ <<a, b>> # <<>> /\ <<a, b>>[1] = a /\ <<a, b>>[2] = b
  BY DEF Pair

(* select_range selects what the field asks for, or nothing. *)
LEMMA SelectedIs ==
  ASSUME ask \in Asks
  PROVE  /\ SelectedRange = <<>> => Wanted = {} \/ ask.size = 0
         /\ SelectedRange # <<>> => Wants(SelectedRange)
  <1>0. /\ ask.size \in Nat /\ ask.first \in Int /\ ask.last \in Int /\ ask.first >= -1 /\ ask.last >= -1
    BY AskIs
  <1> DEFINE size == ask.size
  <1>1. ASSUME NEW a \in Int, NEW b \in Int, SelectedRange = <<a, b>>, Wanted = a .. b,
               0 <= a, a <= b + 1, b < size, size # 0 => a <= b
        PROVE  SelectedRange # <<>> /\ Wants(SelectedRange)
    BY <1>1, PairIs DEF Wants
  <1>2. CASE ask.first = NoNumber /\ ask.last = NoNumber
    <2>1. SelectedRange = <<0, size - 1>>
      BY <1>2 DEF SelectedRange
    <2>2. Wanted = 0 .. (size - 1)
      BY <1>2 DEF Wanted
    <2> QED BY <1>0, <1>1, <2>1, <2>2
  <1>3. CASE ask.first = NoNumber /\ ask.last # NoNumber /\ (ask.last = 0 \/ size = 0)
    <2>1. SelectedRange = <<>>
      BY <1>3 DEF SelectedRange
    <2>2. Wanted = {} \/ ask.size = 0
      BY <1>0, <1>3 DEF Wanted
    <2> QED BY <2>1, <2>2
  <1>4. CASE ask.first = NoNumber /\ ask.last # NoNumber /\ ask.last # 0 /\ size # 0
    <2>1. PICK a : a = Most(0, size - ask.last)
      OBVIOUS
    <2>2. a \in Int /\ 0 <= a /\ a <= size - 1 /\ (a = 0 \/ a = size - ask.last) /\ a >= size - ask.last
      BY <1>0, <1>4, <2>1 DEF Most, NoNumber
    <2>3. SelectedRange = <<a, size - 1>>
      BY <1>4, <2>1 DEF SelectedRange
    <2>4. Wanted = a .. (size - 1)
      BY <1>0, <1>4, <2>2 DEF Wanted
    <2> QED BY <1>0, <1>1, <2>2, <2>3, <2>4
  <1>5. CASE ask.first # NoNumber /\ ask.last # NoNumber /\ ask.first > ask.last
    <2>1. SelectedRange = <<0, size - 1>>
      BY <1>5 DEF SelectedRange
    <2>2. Wanted = 0 .. (size - 1)
      BY <1>5 DEF Wanted
    <2> QED BY <1>0, <1>1, <2>1, <2>2
  <1>6. CASE /\ ask.first # NoNumber /\ ~(ask.last # NoNumber /\ ask.first > ask.last)
             /\ size = 0 \/ ask.first >= size
    <2>1. SelectedRange = <<>>
      BY <1>6 DEF SelectedRange
    <2>2. Wanted = {} \/ ask.size = 0
      BY <1>0, <1>6 DEF Wanted
    <2> QED BY <2>1, <2>2
  <1>7. CASE /\ ask.first # NoNumber /\ ~(ask.last # NoNumber /\ ask.first > ask.last)
             /\ ~(size = 0 \/ ask.first >= size)
    <2>1. PICK end : end = IF ask.last = NoNumber THEN size - 1 ELSE ask.last
      OBVIOUS
    <2>2. PICK b : b = Least(end, size - 1)
      OBVIOUS
    <2>3. SelectedRange = <<ask.first, b>>
      BY <1>7, <2>1, <2>2 DEF SelectedRange
    <2>4. b \in Int /\ ask.first <= b /\ b < size /\ 0 <= ask.first
      BY <1>0, <1>7, <2>1, <2>2 DEF Least, NoNumber
    <2>5. Wanted = ask.first .. b
      BY <1>0, <1>7, <2>1, <2>2, <2>4 DEF Wanted, Least
    <2> QED BY <1>0, <1>1, <2>3, <2>4, <2>5
  <1> QED BY <1>2, <1>3, <1>4, <1>5, <1>6, <1>7

LEMMA RunsJoin ==
  ASSUME NEW s, NEW a \in Int, RunOf(s, a), NEW t, RunOf(t, a + Len(s))
  PROVE  RunOf(s \o t, a) /\ Len(s \o t) = Len(s) + Len(t) /\ Len(s) \in Nat /\ Len(t) \in Nat
  <1>1. s \in Seq(Int) /\ t \in Seq(Int) /\ Len(s) \in Nat /\ Len(t) \in Nat
    BY DEF RunOf
  <1>2. /\ s \o t \in Seq(Int) /\ Len(s \o t) = Len(s) + Len(t)
        /\ \A i \in 1 .. Len(s) + Len(t) : (s \o t)[i] = IF i <= Len(s) THEN s[i] ELSE t[i - Len(s)]
    BY <1>1, ConcatProperties
  <1>3. ASSUME NEW k \in 1 .. Len(s \o t) PROVE (s \o t)[k] = a + k - 1
    <2>1. CASE k <= Len(s)
      BY <1>1, <1>2, <2>1 DEF RunOf
    <2>2. CASE k > Len(s)
      <3>1. k - Len(s) \in 1 .. Len(t)
        BY <1>1, <1>2, <2>2
      <3>2. t[k - Len(s)] = (a + Len(s)) + (k - Len(s)) - 1
        BY <3>1 DEF RunOf
      <3>3. (s \o t)[k] = t[k - Len(s)]
        BY <1>1, <1>2, <2>2
      <3> QED BY <1>1, <3>2, <3>3
    <2> QED BY <1>1, <1>2, <2>1, <2>2
  <1> QED BY <1>1, <1>2, <1>3 DEF RunOf

(* What slice_media_chunks takes of a chunk: the next bytes wanted, and the *)
(* source stays where the next one is. *)
LEMMA TakenIs ==
  ASSUME src \in Source, ask \in Asks, NEW length \in Nat, length > 0, src.next < SourceEnd, SourceEnd \in Int,
         NEW chunk, chunk = ChunkOf(length)
  PROVE  /\ RunOf(Taken(chunk), src.next + src.skip)
         /\ Len(Taken(chunk)) \in Nat /\ Len(Taken(chunk)) <= src.left
         /\ Advance(chunk) => /\ src' \in Source /\ src'.left = src.left - Len(Taken(chunk))
                              /\ src'.left > 0 => src'.next + src'.skip = src.next + src.skip + Len(Taken(chunk))
  <1>0. src.next \in Nat /\ src.skip \in Nat /\ src.left \in Nat
    BY DEF Source
  <1>1. PICK n : n = Least(src.next + length, SourceEnd) - src.next
    OBVIOUS
  <1>2. n \in Nat /\ n > 0
    BY <1>0, <1>1 DEF Least
  <1>3. chunk = [k \in 1 .. n |-> src.next + k - 1]
    BY <1>1 DEF ChunkOf
  <1>4. chunk \in Seq(Int) /\ Len(chunk) = n /\ \A k \in 1 .. n : chunk[k] = src.next + k - 1
    <2>1. chunk \in [1 .. n -> Int]
      BY <1>0, <1>2, <1>3
    <2>2. chunk \in Seq(Int)
      BY <1>2, <2>1, SeqDef
    <2> QED BY <1>2, <1>3, <2>1, <2>2, LenProperties
  <1>5. PICK skip : skip = Least(src.skip, n)
    OBVIOUS
  <1>6. PICK t : t = Least(src.left, n - skip)
    OBVIOUS
  <1>7. skip \in Nat /\ skip <= n /\ skip <= src.skip /\ (skip = src.skip \/ skip = n)
    BY <1>0, <1>2, <1>5 DEF Least
  <1>8. t \in Nat /\ t <= src.left /\ skip + t <= n /\ (t = src.left \/ skip + t = n)
    BY <1>0, <1>2, <1>6, <1>7 DEF Least
  <1>9. Taken(chunk) = SubSeq(chunk, skip + 1, skip + t)
    BY <1>4, <1>5, <1>6 DEF Taken
  <1>10. \A i \in (skip + 1) .. (skip + t) : i \in 1 .. n /\ chunk[i] \in Int
    BY <1>0, <1>2, <1>4, <1>7, <1>8
  <1>11. /\ Taken(chunk) \in Seq(Int) /\ Len(Taken(chunk)) = t
         /\ \A i \in 1 .. t : Taken(chunk)[i] = chunk[skip + 1 + i - 1]
    <2>1. skip + 1 \in Int /\ skip + t \in Int
      BY <1>7, <1>8
    <2>2. /\ SubSeq(chunk, skip + 1, skip + t) \in Seq(Int)
          /\ Len(SubSeq(chunk, skip + 1, skip + t)) =
               IF skip + 1 <= skip + t THEN (skip + t) - (skip + 1) + 1 ELSE 0
          /\ \A i \in 1 .. (skip + t) - (skip + 1) + 1 : SubSeq(chunk, skip + 1, skip + t)[i] = chunk[(skip + 1) + i - 1]
      BY <1>10, <2>1, SubSeqProperties
    <2>3. (IF skip + 1 <= skip + t THEN (skip + t) - (skip + 1) + 1 ELSE 0) = t /\ (skip + t) - (skip + 1) + 1 = t
      BY <1>7, <1>8
    <2> QED BY <1>9, <2>2, <2>3
  <1>12. RunOf(Taken(chunk), src.next + src.skip)
    <2>1. ASSUME NEW i \in 1 .. t PROVE Taken(chunk)[i] = src.next + src.skip + i - 1
      <3>1. skip = src.skip /\ skip + i \in 1 .. n /\ skip + 1 + i - 1 = skip + i
        <4>1. i \in Nat /\ 1 <= i /\ i <= t
          BY <1>8
        <4>2. skip # n
          BY <1>2, <1>7, <1>8, <4>1
        <4> QED BY <1>2, <1>7, <1>8, <4>1, <4>2
      <3>2. chunk[skip + i] = src.next + (skip + i) - 1
        BY <1>4, <3>1
      <3>3. Taken(chunk)[i] = chunk[skip + i]
        BY <1>11, <3>1
      <3> QED BY <1>0, <3>1, <3>2, <3>3
    <2> QED BY <1>11, <2>1 DEF RunOf
  <1>13. ASSUME Advance(chunk)
         PROVE  /\ src' \in Source /\ src'.left = src.left - t
                /\ src'.left > 0 => src'.next + src'.skip = src.next + src.skip + t
    <2>1. src' = [next |-> src.next + n, skip |-> src.skip - skip, left |-> src.left - t]
      BY <1>4, <1>5, <1>11, <1>13 DEF Advance
    <2>2. src.next + n \in Nat /\ src.skip - skip \in Nat /\ src.left - t \in Nat
      BY <1>0, <1>2, <1>7, <1>8
    <2>3. src.left - t > 0 => (src.next + n) + (src.skip - skip) = src.next + src.skip + t
      BY <1>0, <1>2, <1>7, <1>8
    <2> QED BY <2>1, <2>2, <2>3 DEF Source
  <1> QED BY <1>8, <1>11, <1>12, <1>13

LEMMA SourceEndIs ==
  ASSUME ask \in Asks
  PROVE  SourceEnd \in Int /\ Records(ask.size) \in Nat /\ (ask.kind # "protected" => SourceEnd = ask.size - ask.lost)
  <1>0. ask.size \in Nat /\ ask.lost \in 0 .. 1
    BY AskIs
  <1>1. Records(ask.size) \in Nat
    <2>1. ask.size + RecordLength - 1 \in Nat
      BY <1>0, StreamConstants
    <2> QED BY <2>1, StreamConstants, DivIs DEF Records
  <1>2. EnvelopeLength(ask.size) \in Int
    <2>1. Records(ask.size) * TagLength \in Nat
      BY <1>1, StreamConstants
    <2> QED BY <1>0, <2>1, StreamConstants DEF EnvelopeLength
  <1> QED BY <1>0, <1>1, <1>2 DEF SourceEnd, SourceLength

LEMMA NoBytes == <<>> \in Seq(Int) /\ Len(<<>>) = 0 /\ \A a : RunOf(<<>>, a)
  BY EmptySeq DEF RunOf

\* The records a range lies in.
LEMMA RecordsAre ==
  ASSUME ask \in Asks, NEW s, Wants(s), ask.size # 0
  PROVE  /\ s[1] \in Nat /\ s[2] \in Nat /\ s[1] <= s[2] /\ s[2] < ask.size /\ ask.size \in Nat
         /\ FirstRecord(s) \in Nat /\ LastRecord(s) \in Nat /\ FirstRecord(s) <= LastRecord(s)
         /\ FirstRecord(s) * RecordLength <= s[1] /\ s[1] < FirstRecord(s) * RecordLength + RecordLength
         /\ LastRecord(s) * RecordLength <= s[2] /\ s[2] < LastRecord(s) * RecordLength + RecordLength
  <1>1. s[1] \in Nat /\ s[2] \in Nat /\ s[1] <= s[2] /\ s[2] < ask.size /\ ask.size \in Nat
    BY AskIs DEF Wants, Pair
  <1>2. PICK f \in Nat, l \in Nat : f = s[1] \div RecordLength /\ l = s[2] \div RecordLength
    BY <1>1, StreamConstants, DivIs
  <1>3. /\ f * RecordLength <= s[1] /\ s[1] < f * RecordLength + RecordLength
        /\ l * RecordLength <= s[2] /\ s[2] < l * RecordLength + RecordLength
    BY <1>1, <1>2, StreamConstants, DivIs
  <1>4. f <= l
    <2> SUFFICES ASSUME l < f PROVE FALSE
      BY <1>2
    <2>1. l + 1 \in Nat /\ l + 1 <= f
      BY <1>2
    <2>2. (l + 1) * RecordLength <= f * RecordLength
      BY <2>1, StreamConstants, TimesGrows
    <2>3. (l + 1) * RecordLength = l * RecordLength + RecordLength
      BY StreamConstants
    <2>4. l * RecordLength \in Nat /\ f * RecordLength \in Nat
      BY StreamConstants
    <2> QED BY <1>1, <1>3, <2>2, <2>3, <2>4, StreamConstants
  <1> QED BY <1>1, <1>2, <1>3, <1>4 DEF FirstRecord, LastRecord

LEMMA RespondKeeps ==
  ASSUME MediaSound, Respond
  PROVE  MediaSound'
  <1>0. /\ ask \in Asks /\ phase = "asked" /\ body = <<>> /\ SelectedRange # <<>> /\ ask.kind # "protected"
        /\ UNCHANGED <<ask, buffer, rec, body, charged>> /\ phase' = "streaming" /\ rec \in Nat /\ charged \in BOOLEAN
    BY DEF MediaSound, Respond
  <1>1. PICK s : s = SelectedRange
    OBVIOUS
  <1>2. Wants(s)
    BY <1>0, <1>1, SelectedIs
  <1>3. sel' = s /\ src' = [next |-> (s[1] \div Alignment) * Alignment, skip |-> s[1] % Alignment, left |-> s[2] - s[1] + 1]
    BY <1>1 DEF Respond, Begin, Leading
  <1>4. s[1] \in Nat /\ s[2] \in Int /\ s[1] <= s[2] + 1 /\ s[2] - s[1] + 1 \in Nat /\ Pair(s)
    BY <1>2 DEF Wants, Pair
  <1>5. /\ s[1] \div Alignment \in Nat /\ s[1] % Alignment \in Nat
        /\ s[1] = (s[1] \div Alignment) * Alignment + (s[1] % Alignment)
    BY <1>4, StreamConstants, DivIs
  <1>6. (s[1] \div Alignment) * Alignment \in Nat
    BY <1>5, StreamConstants
  <1>7. src' \in Source
    BY <1>3, <1>4, <1>5, <1>6 DEF Source
  <1>8. Answers'
    <2>1. Wants(sel)'
      BY <1>0, <1>2, <1>3 DEF Wants, Wanted
    <2>2. RunOf(body, sel[1])' /\ (Len(body) <= Asked(sel))' /\ (ask.kind # "protected")'
      BY <1>0, <1>3, <1>4, NoBytes DEF Asked
    <2> QED BY <2>1, <2>2 DEF Answers
  <1>9. SourceFits'
    BY <1>0, <1>3, <1>4, <1>5, <1>6, NoBytes DEF SourceFits, Asked
  <1> QED BY <1>0, <1>3, <1>4, <1>7, <1>8, <1>9 DEF MediaSound, MediaPhases

LEMMA RespondProtectedKeeps ==
  ASSUME MediaSound, RespondProtected
  PROVE  MediaSound'
  <1>0. /\ ask \in Asks /\ phase = "asked" /\ body = <<>> /\ SelectedRange # <<>> /\ ask.kind = "protected" /\ ask.size # 0
        /\ UNCHANGED <<ask, buffer, body, charged>> /\ phase' = "streaming" /\ charged \in BOOLEAN
    BY DEF MediaSound, RespondProtected
  <1>1. PICK s : s = SelectedRange
    OBVIOUS
  <1>2. Wants(s)
    BY <1>0, <1>1, SelectedIs
  <1>3. PICK from : from = RecordOffset(FirstRecord(s))
    OBVIOUS
  <1>4. PICK count : count = CipherEnd(s) - from
    OBVIOUS
  <1>5. sel' = s /\ rec' = FirstRecord(s)
        /\ src' = [next |-> (from \div Alignment) * Alignment, skip |-> from % Alignment, left |-> count]
    BY <1>1, <1>3, <1>4 DEF RespondProtected, Begin, Leading
  <1>6. PICK f \in Nat, l \in Nat : f = FirstRecord(s) /\ l = LastRecord(s)
    BY <1>0, <1>2, RecordsAre
  <1>7. /\ s[1] \in Nat /\ s[2] \in Nat /\ s[1] <= s[2] /\ s[2] < ask.size /\ ask.size \in Nat
        /\ f <= l /\ l * RecordLength <= s[2] /\ l * RecordLength \in Nat
    BY <1>0, <1>2, <1>6, RecordsAre, StreamConstants
  <1>8. from \in Nat /\ count \in Nat
    <2>1. PICK n \in Nat : n = RecordLength + TagLength
      BY StreamConstants
    <2>2. f * n <= l * n /\ f * n \in Nat /\ l * n \in Nat
      BY <1>7, TimesGrows
    <2>3. RecordOffset(l) = HeaderLength + l * n /\ from = HeaderLength + f * n
      BY <1>3, <1>6, <2>1 DEF RecordOffset
    <2>4. PICK plain : plain = RecordPlain(l)
      OBVIOUS
    <2>5. plain \in Nat
      BY <1>7, <2>4, StreamConstants DEF RecordPlain, Least
    <2>6. PICK tail \in Nat : CipherEnd(s) = RecordOffset(l) + plain + TagLength + tail
      BY <1>6, <2>4, StreamConstants DEF CipherEnd
    <2> QED BY <1>4, <2>2, <2>3, <2>5, <2>6, StreamConstants
  <1>9. src' \in Source
    <2>1. from \div Alignment \in Nat /\ from % Alignment \in Nat
      BY <1>8, StreamConstants, DivIs
    <2>2. (from \div Alignment) * Alignment \in Nat
      BY <2>1, StreamConstants
    <2> QED BY <1>5, <1>8, <2>1, <2>2 DEF Source
  <1>10. Answers'
    <2>1. Wants(sel)'
      BY <1>0, <1>2, <1>5 DEF Wants, Wanted
    <2>2. RunOf(body, sel[1])' /\ (Len(body) <= Asked(sel))'
      BY <1>0, <1>5, <1>7, NoBytes DEF Asked
    <2>3. RecordsFit'
      <3>1. rec' = f /\ FirstRecord(sel)' = f /\ LastRecord(sel)' = l /\ f \in f .. (l + 1) /\ ~(f > l)
        BY <1>5, <1>6, <1>7 DEF FirstRecord, LastRecord
      <3>2. Len(body') = 0 /\ body' = <<>>
        BY <1>0, NoBytes
      <3>3. Decrypted' = 0
        BY <3>1 DEF Decrypted
      <3> QED BY <1>0, <3>1, <3>2, <3>3 DEF RecordsFit
    <2> QED BY <2>1, <2>2, <2>3 DEF Answers
  <1> QED BY <1>0, <1>2, <1>5, <1>6, <1>9, <1>10 DEF MediaSound, MediaPhases, Wants

LEMMA RefuseKeeps ==
  ASSUME MediaSound, Refuse
  PROVE  MediaSound'
  <1>1. ask \in Asks /\ (SelectedRange = <<>> \/ ask.size = 0) /\ phase = "asked"
        /\ phase' = "refused" /\ UNCHANGED <<ask, sel, src, buffer, rec, body, charged>>
    BY DEF MediaSound, Refuse
  <1>2. Wanted = {} \/ ask.size = 0
    BY <1>1, SelectedIs
  <1>3. (Wanted = {} \/ ask.size = 0)'
    BY <1>1, <1>2 DEF Wanted
  <1> QED BY <1>1, <1>3 DEF MediaSound, MediaPhases

\* A step that adds nothing to the body leaves what holds of it.
LEMMA AnswersKept ==
  ASSUME Answers, UNCHANGED <<ask, sel, rec, body>>
  PROVE  Answers'
  <1>1. Wants(sel)'
    BY DEF Answers, Wants, Wanted
  <1>2. RecordsFit => RecordsFit'
    BY DEF RecordsFit, Decrypted, FirstRecord, LastRecord, WholeFile
  <1> QED BY <1>1, <1>2 DEF Answers, Asked

\* The next bytes of the range join the body.
LEMMA BodyGrows ==
  ASSUME Answers, ask \in Asks, ask.kind # "protected", UNCHANGED <<ask, sel>>, NEW taken,
         RunOf(taken, sel[1] + Len(body)), Len(taken) \in Nat, Len(body) + Len(taken) <= Asked(sel), body' = body \o taken
  PROVE  Answers' /\ Len(body') = Len(body) + Len(taken)
  <1>1. sel[1] \in Int /\ RunOf(body, sel[1])
    BY DEF Answers, Wants, Pair
  <1>2. RunOf(body \o taken, sel[1]) /\ Len(body \o taken) = Len(body) + Len(taken)
    BY <1>1, RunsJoin
  <1>3. Wants(sel)'
    BY DEF Answers, Wants, Wanted
  <1> QED BY <1>2, <1>3 DEF Answers

\* Of a source in one piece: a chunk adds what it holds of the range.
LEMMA ChunkAdds ==
  ASSUME MediaSound, phase = "streaming", ask.kind # "protected", src.left > 0, src.next < SourceEnd,
         NEW length \in Nat, length > 0, NEW chunk, chunk = ChunkOf(length), Advance(chunk), body' = body \o Taken(chunk),
         UNCHANGED <<ask, sel, rec, phase, charged>>
  PROVE  MediaSound'
  <1>0. /\ ask \in Asks /\ src \in Source /\ Answers /\ SourceFits /\ Pair(sel)
    BY DEF MediaSound
  <1>1. PICK taken : taken = Taken(chunk)
    OBVIOUS
  <1>2. /\ RunOf(taken, src.next + src.skip) /\ Len(taken) \in Nat /\ Len(taken) <= src.left
        /\ src' \in Source /\ src'.left = src.left - Len(taken)
        /\ src'.left > 0 => src'.next + src'.skip = src.next + src.skip + Len(taken)
    BY <1>0, <1>1, SourceEndIs, TakenIs
  <1>3. src.next + src.skip = sel[1] + Len(body) /\ Len(body) + src.left = Asked(sel)
    BY <1>0 DEF SourceFits
  <1>4. sel[1] \in Int /\ sel[2] \in Int /\ Len(body) \in Nat /\ src.left \in Nat /\ Asked(sel) \in Int
    BY <1>0 DEF Answers, RunOf, Source, Pair, Asked
  <1>5. Len(body) + Len(taken) <= Asked(sel)
    BY <1>2, <1>3, <1>4
  <1>6. Answers' /\ Len(body') = Len(body) + Len(taken)
    BY <1>0, <1>1, <1>2, <1>3, <1>5, BodyGrows
  <1>7. SourceFits'
    <2>1. src'.left \in Nat /\ Asked(sel)' = Asked(sel)
      BY <1>2 DEF Source, Asked
    <2>2. src'.left > 0 => src'.next + src'.skip = sel[1] + Len(body') /\ Len(body') + src'.left = Asked(sel)
      BY <1>2, <1>3, <1>4, <1>6
    <2>3. ASSUME src'.left = 0 PROVE Len(body') = Asked(sel)
      <3>1. src.left = Len(taken)
        BY <1>2, <1>4, <2>3
      <3> QED BY <1>3, <1>6, <3>1
    <2> QED BY <2>1, <2>2, <2>3 DEF SourceFits
  <1> QED BY <1>2, <1>6, <1>7 DEF MediaSound

LEMMA SliceKeeps ==
  ASSUME MediaSound, SliceChunk
  PROVE  MediaSound'
  <1>1. PICK chunk : chunk = ChunkOf(SourceChunk)
    OBVIOUS
  <1>2. /\ phase = "streaming" /\ src.left > 0 /\ src.next < SourceEnd /\ Advance(chunk)
        /\ UNCHANGED <<ask, sel, rec, phase, charged>>
    BY <1>1 DEF SliceChunk
  <1>3. CASE ask.kind = "plain"
    <2>1. body' = body \o Taken(chunk)
      BY <1>1, <1>3 DEF SliceChunk
    <2> QED BY <1>1, <1>2, <1>3, <2>1, StreamConstants, ChunkAdds
  <1>4. CASE ask.kind # "plain"
    <2>1. body' = body /\ ask.kind = "protected"
      BY <1>4, AskIs DEF SliceChunk, MediaSound
    <2>2. src' \in Source
      BY <1>1, <1>2, SourceEndIs, StreamConstants, TakenIs DEF MediaSound
    <2>3. Answers'
      BY <1>2, <2>1, AnswersKept DEF MediaSound
    <2> QED BY <1>2, <2>1, <2>2, <2>3 DEF MediaSound
  <1> QED BY <1>3, <1>4

LEMMA EndsKeep ==
  ASSUME MediaSound, SourceEnds \/ AccountEnds \/ CredentialEnds
  PROVE  MediaSound'
  <1>1. phase = "streaming" /\ phase' = "aborted" /\ UNCHANGED <<ask, sel, src, buffer, rec, body, charged>>
    BY DEF SourceEnds, AccountEnds, CredentialEnds
  <1>2. Answers'
    BY <1>1, AnswersKept DEF MediaSound
  <1> QED BY <1>1, <1>2 DEF MediaSound, MediaPhases

LEMMA DavReadKeeps ==
  ASSUME MediaSound, ReadMediaRange
  PROVE  MediaSound'
  <1>0. /\ phase = "streaming" /\ ask.kind = "dav" /\ src.left > 0 /\ UNCHANGED <<ask, sel, buffer, rec, phase, charged>>
        /\ ask \in Asks /\ src \in Source /\ Answers /\ SourceFits
    BY DEF MediaSound, ReadMediaRange
  <1>1. CASE src.next < SourceEnd
    BY <1>0, <1>1, StreamConstants, ChunkAdds DEF ReadMediaRange
  <1>2. CASE ~(src.next < SourceEnd)
    <2>1. src' = [src EXCEPT !.left = 0] /\ UNCHANGED body
      BY <1>2 DEF ReadMediaRange
    <2>2. src' \in Source /\ src'.left = 0
      BY <1>0, <2>1 DEF Source
    <2>3. ask.lost # 0
      <3>1. SourceEnd = ask.size - ask.lost /\ SourceEnd \in Int /\ ask.size \in Nat /\ ask.lost \in 0 .. 1
        BY <1>0, SourceEndIs, AskIs
      <3>2. sel[1] \in Int /\ sel[2] \in Int /\ sel[2] < ask.size /\ Len(body) \in Nat
        BY <1>0 DEF Answers, Wants, Pair, RunOf
      <3>3. src.next + src.skip = sel[1] + Len(body) /\ Len(body) + src.left = sel[2] - sel[1] + 1
            /\ src.next \in Nat /\ src.skip \in Nat /\ src.left \in Nat
        BY <1>0 DEF SourceFits, Asked, Source
      <3>4. sel[1] + Len(body) < ask.size
        BY <1>0, <3>1, <3>2, <3>3
      <3>5. src.next < ask.size /\ src.next >= ask.size - ask.lost
        BY <1>2, <3>1, <3>2, <3>3, <3>4
      <3> QED BY <3>1, <3>3, <3>5
    <2>4. Answers'
      BY <1>0, <2>1, AnswersKept
    <2>5. SourceFits'
      BY <1>0, <2>2, <2>3 DEF SourceFits
    <2> QED BY <1>0, <2>1, <2>2, <2>4, <2>5 DEF MediaSound
  <1> QED BY <1>1, <1>2

(* A record that authenticates adds its part of the range. *)
LEMMA DecryptKeeps ==
  ASSUME MediaSound, DecryptRecord
  PROVE  MediaSound'
  <1>0. /\ phase = "streaming" /\ ask.kind = "protected" /\ rec <= LastRecord(sel) /\ UNCHANGED <<ask, sel, src, charged>>
        /\ ask \in Asks /\ Answers /\ RecordsFit /\ Wants(sel) /\ ask.size # 0 /\ rec \in Nat /\ ask.bad \in Int
    BY AskIs DEF MediaSound, DecryptRecord, Answers, RecordsFit
  <1>1. CASE phase' = "aborted" /\ UNCHANGED <<body, buffer, rec>>
    <2>1. Answers'
      BY <1>0, <1>1, AnswersKept
    <2> QED BY <1>0, <1>1, <2>1 DEF MediaSound, MediaPhases
  <1>2. ASSUME ~(phase' = "aborted" /\ UNCHANGED <<body, buffer, rec>>)
        PROVE  MediaSound'
    <2>1. PICK f \in Nat, l \in Nat : f = FirstRecord(sel) /\ l = LastRecord(sel)
      BY <1>0, RecordsAre
    <2>2. PICK a \in Nat, b \in Nat : a = sel[1] /\ b = sel[2]
      BY <1>0, RecordsAre
    <2>3. /\ a <= b /\ b < ask.size /\ ask.size \in Nat /\ f <= l
          /\ f * RecordLength <= a /\ a < f * RecordLength + RecordLength
          /\ l * RecordLength <= b /\ b < l * RecordLength + RecordLength
      BY <1>0, <2>1, <2>2, RecordsAre
    <2>4. rec >= f /\ rec <= l /\ (rec # f => a <= rec * RecordLength)
          /\ Len(body) = (IF rec = f THEN 0 ELSE Least(b + 1, rec * RecordLength) - a)
      BY <1>0, <2>1, <2>2 DEF RecordsFit, Decrypted
    <2>5. PICK offset \in Nat : offset = rec * RecordLength
      BY <1>0, StreamConstants
    <2>6. offset <= b /\ (rec = f => offset <= a /\ a < offset + RecordLength)
      <3>1. rec * RecordLength <= l * RecordLength
        BY <1>0, <2>4, StreamConstants, TimesGrows
      <3>2. l * RecordLength \in Nat
        BY StreamConstants
      <3> QED BY <2>3, <2>5, <3>1, <3>2
    <2>7. (rec + 1) * RecordLength = offset + RecordLength
      BY <1>0, <2>5, StreamConstants
    <2>8. PICK from : from = Most(0, a - offset)
      OBVIOUS
    <2>9. PICK to : to = Least(b - offset + 1, RecordPlain(rec))
      OBVIOUS
    <2>10. PICK added : added = [k \in 1 .. (to - from) |-> offset + from + k - 1]
      OBVIOUS
    <2>11. /\ body' = body \o added /\ rec' = rec + 1 /\ UNCHANGED phase
           /\ rec # ask.bad /\ ((WholeFile(sel) /\ rec = l) => ask.bad # Records(ask.size))
      BY <1>2, <2>1, <2>2, <2>5, <2>8, <2>9, <2>10 DEF DecryptRecord, Authentic, FinalVerified
    <2>12. offset + from = a + Len(body) /\ from \in Nat /\ Len(body) \in Nat /\ from < RecordLength /\ offset + from <= b
      <3>1. CASE rec = f
        BY <2>3, <2>4, <2>6, <2>8, <3>1, StreamConstants DEF Most
      <3>2. CASE rec # f
        <4>1. a <= offset
          BY <2>4, <2>5, <3>2
        <4>2. Least(b + 1, rec * RecordLength) = offset
          BY <2>5, <2>6 DEF Least
        <4>3. Len(body) = offset - a
          BY <2>4, <3>2, <4>2
        <4>4. from = 0
          BY <2>8, <4>1 DEF Most
        <4> QED BY <2>6, <4>1, <4>3, <4>4, StreamConstants
      <3> QED BY <3>1, <3>2
    <2>13. PICK ends \in Nat : ends = Least(b + 1, offset + RecordLength)
      BY StreamConstants DEF Least
    <2>14. offset + to = ends /\ to \in Nat /\ to <= RecordLength /\ ends <= b + 1 /\ from <= to
      <3>1. RecordPlain(rec) = Least(RecordLength, ask.size - offset)
        BY <2>5 DEF RecordPlain
      <3> QED BY <2>3, <2>6, <2>9, <2>12, <2>13, <3>1, StreamConstants DEF Least
    <2>15. added \in Seq(Int) /\ Len(added) = to - from
      <3>1. to - from \in Nat
        BY <2>12, <2>14
      <3>2. added \in [1 .. (to - from) -> Int]
        BY <2>10, <2>12, <3>1
      <3>3. added \in Seq(Int)
        BY <3>1, <3>2, SeqDef
      <3> QED BY <3>1, <3>2, <3>3, LenProperties
    <2>16. RunOf(added, a + Len(body))
      <3>1. \A k \in 1 .. Len(added) : added[k] = a + Len(body) + k - 1
        BY <2>10, <2>12, <2>14, <2>15
      <3> QED BY <2>15, <3>1 DEF RunOf
    <2>17. RunOf(body, a) /\ a \in Int
      BY <1>0, <2>2 DEF Answers
    <2>18. RunOf(body', a) /\ Len(body') = Len(body) + Len(added)
      BY <2>11, <2>16, <2>17, RunsJoin
    <2>19. Len(body') = ends - a
      BY <2>12, <2>14, <2>15, <2>18
    <2>20. Wants(sel)'
      BY <1>0 DEF Wants, Wanted
    <2>21. \A k \in 1 .. Len(body') : body'[k] \div RecordLength # ask.bad
      <3> SUFFICES ASSUME NEW k \in 1 .. Len(body') PROVE body'[k] \div RecordLength # ask.bad
        OBVIOUS
      <3>1. CASE k <= Len(body)
        <4>1. body'[k] = a + k - 1 /\ body[k] = a + k - 1 /\ k \in 1 .. Len(body)
          BY <2>12, <2>17, <2>18, <3>1 DEF RunOf
        <4> QED BY <1>0, <4>1 DEF RecordsFit
      <3>2. CASE k > Len(body)
        <4>1. PICK x : x = body'[k]
          OBVIOUS
        <4>2. x = a + k - 1
          BY <2>18, <4>1 DEF RunOf
        <4>3. x \in Nat /\ offset <= x /\ x < offset + RecordLength
          BY <2>12, <2>13, <2>14, <2>19, <3>2, <4>2, StreamConstants DEF Least
        <4>4. x \div RecordLength = rec
          BY <1>0, <2>5, <4>3, StreamConstants, DivUnique
        <4> QED BY <2>11, <4>1, <4>4
      <3> QED BY <2>12, <2>18, <3>1, <3>2
    <2>22. RecordsFit'
      <3>1. FirstRecord(sel)' = f /\ LastRecord(sel)' = l /\ WholeFile(sel)' = WholeFile(sel) /\ ask'.size = ask.size /\ ask'.bad = ask.bad
        BY <1>0, <2>1 DEF FirstRecord, LastRecord, WholeFile
      <3>2. rec + 1 \in f .. (l + 1) /\ rec + 1 # f /\ a <= (rec + 1) * RecordLength
        BY <2>4, <2>6, <2>5, <2>7, StreamConstants, <1>0
      <3>3. Decrypted' = Least(b + 1, (rec + 1) * RecordLength) - a
        BY <1>0, <2>2, <2>11, <3>1, <3>2 DEF Decrypted
      <3>4. Len(body') = Decrypted'
        BY <2>7, <2>13, <2>19, <3>3
      <3>5. (WholeFile(sel) /\ rec + 1 > l) => ask.bad # Records(ask.size)
        BY <1>0, <2>4, <2>11
      <3> QED BY <1>0, <2>2, <2>11, <2>21, <3>1, <3>2, <3>4, <3>5 DEF RecordsFit
    <2>23. Len(body') <= Asked(sel')
      BY <1>0, <2>2, <2>14, <2>19 DEF Asked
    <2>24. Answers'
      BY <1>0, <2>2, <2>18, <2>20, <2>22, <2>23 DEF Answers
    <2> QED BY <1>0, <2>11, <2>24 DEF MediaSound, MediaPhases
  <1> QED BY <1>1, <1>2

LEMMA FinishKeeps ==
  ASSUME MediaSound, FinishBody
  PROVE  MediaSound'
  <1>0. /\ phase = "streaming" /\ phase' = "done" /\ UNCHANGED <<ask, sel, src, buffer, rec, body>>
        /\ src.left = 0 /\ ask.kind # "dav" /\ (ask.kind = "protected" => rec > LastRecord(sel))
        /\ charged' = (Len(body) = sel[2] - sel[1] + 1) /\ ask \in Asks /\ Answers /\ rec \in Nat
    BY DEF MediaSound, FinishBody
  <1>1. Len(body) = sel[2] - sel[1] + 1
    <2>1. CASE ask.kind = "protected"
      <3>1. RecordsFit /\ Wants(sel) /\ ask.size # 0
        BY <1>0, <2>1 DEF Answers, RecordsFit
      <3>2. PICK f \in Nat, l \in Nat : f = FirstRecord(sel) /\ l = LastRecord(sel)
        BY <1>0, <3>1, RecordsAre
      <3>3. /\ sel[1] \in Nat /\ sel[2] \in Nat /\ f <= l /\ sel[2] < l * RecordLength + RecordLength
        BY <1>0, <3>1, <3>2, RecordsAre
      <3>4. rec = l + 1 /\ rec # f
        BY <1>0, <2>1, <3>1, <3>2, <3>3 DEF RecordsFit
      <3>5. rec * RecordLength = l * RecordLength + RecordLength /\ l * RecordLength \in Nat
        BY <3>4, StreamConstants
      <3>6. Least(sel[2] + 1, rec * RecordLength) = sel[2] + 1
        BY <3>3, <3>5, StreamConstants DEF Least
      <3>7. Len(body) = Least(sel[2] + 1, rec * RecordLength) - sel[1]
        BY <3>1, <3>2, <3>4 DEF RecordsFit, Decrypted
      <3> QED BY <3>3, <3>6, <3>7
    <2>2. CASE ask.kind # "protected"
      <3>1. SourceFits
        BY <1>0, <2>2 DEF MediaSound
      <3> QED BY <1>0, <3>1 DEF SourceFits, Asked
    <2> QED BY <2>1, <2>2
  <1>2. charged' = TRUE
    BY <1>0, <1>1
  <1>3. Answers'
    BY <1>0, AnswersKept
  <1>4. (Len(body) = Asked(sel))'
    BY <1>0, <1>1 DEF Asked
  <1> QED BY <1>0, <1>2, <1>3, <1>4 DEF MediaSound, MediaPhases

LEMMA FinishDavKeeps ==
  ASSUME MediaSound, FinishDavRead
  PROVE  MediaSound'
  <1>0. /\ phase = "streaming" /\ phase' = "done" /\ UNCHANGED <<ask, sel, src, buffer, rec, body>>
        /\ src.left = 0 /\ ask.kind = "dav" /\ charged' = TRUE /\ Answers /\ SourceFits
    BY DEF MediaSound, FinishDavRead
  <1>1. Answers'
    BY <1>0, AnswersKept
  <1>2. (Len(body) = Asked(sel) \/ (ask.kind = "dav" /\ ask.lost # 0))'
    BY <1>0 DEF SourceFits, Asked
  <1> QED BY <1>0, <1>1, <1>2 DEF MediaSound, MediaPhases

LEMMA MediaStarts == MediaInit => MediaSound
  <1> SUFFICES ASSUME MediaInit PROVE MediaSound
    OBVIOUS
  <1>1. NoAsk \in Asks
    <2>1. Records(0) \in Nat
      <3>1. 0 + RecordLength - 1 \in Nat
        BY StreamConstants
      <3> QED BY <3>1, StreamConstants, DivIs DEF Records
    <2>2. 0 \in 0 .. MaxSize /\ -1 \in -1 .. MaxNumber /\ 0 \in 0 .. 1 /\ -1 \in -1 .. MaxSize /\ -1 <= Records(0)
      BY <2>1, StreamConstants
    <2> QED BY <2>2 DEF NoAsk, Asks, NoNumber
  <1>2. Pair(<<0, 0>>)
    BY PairIs
  <1> QED BY <1>1, <1>2 DEF MediaInit, MediaSound, MediaPhases, Source

LEMMA MediaStep == MediaSound /\ [MediaNext]_streamVars => MediaSound'
  <1> SUFFICES ASSUME MediaSound, [MediaNext]_streamVars PROVE MediaSound'
    OBVIOUS
  <1>1. CASE Arrives
    BY <1>1 DEF Arrives, MediaSound, MediaPhases
  <1>2. CASE Refuse
    BY <1>2, RefuseKeeps
  <1>3. CASE Respond
    BY <1>3, RespondKeeps
  <1>4. CASE RespondProtected
    BY <1>4, RespondProtectedKeeps
  <1>5. CASE SliceChunk
    BY <1>5, SliceKeeps
  <1>6. CASE SourceEnds \/ AccountEnds \/ CredentialEnds
    BY <1>6, EndsKeep
  <1>7. CASE DecryptRecord
    BY <1>7, DecryptKeeps
  <1>8. CASE FinishBody
    BY <1>8, FinishKeeps
  <1>9. CASE ReadMediaRange
    BY <1>9, DavReadKeeps
  <1>10. CASE FinishDavRead
    BY <1>10, FinishDavKeeps
  <1>11. CASE UNCHANGED streamVars
    <2>1. UNCHANGED <<ask, sel, src, rec, body, phase, charged>>
      BY <1>11 DEF streamVars
    <2>2. (Wanted = {} \/ ask.size = 0)' <=> (Wanted = {} \/ ask.size = 0)
      BY <2>1 DEF Wanted
    <2>3. Answers => Answers'
      BY <2>1, AnswersKept
    <2>4. SourceFits => SourceFits'
      BY <2>1 DEF SourceFits, Asked
    <2> QED BY <2>1, <2>2, <2>3, <2>4 DEF MediaSound, Asked
  <1> QED BY <1>1, <1>2, <1>3, <1>4, <1>5, <1>6, <1>7, <1>8, <1>9, <1>10, <1>11 DEF MediaNext

\* The bytes before the k-th of an interval are k - 1.
LEMMA BytesBefore ==
  ASSUME NEW a \in Int, NEW b \in Int, a <= b + 1, NEW k \in Nat, 1 <= k, k <= b - a + 1
  PROVE  /\ Cardinality(a .. b) = b - a + 1 /\ a + k - 1 \in a .. b
         /\ Cardinality({i \in a .. b : i < a + k - 1}) = k - 1
  <1>1. Cardinality(a .. b) = b - a + 1
    BY FS_Interval
  <1>2. {i \in a .. b : i < a + k - 1} = a .. (a + k - 2)
    OBVIOUS
  <1>3. a + k - 2 \in Int /\ (a > a + k - 2 => k = 1)
    OBVIOUS
  <1>4. PICK c \in Int : c = a + k - 2
    BY <1>3
  <1>5. Cardinality(a .. c) = IF a > c THEN 0 ELSE c - a + 1
    BY FS_Interval
  <1>6. Cardinality(a .. c) = k - 1
    BY <1>4, <1>5
  <1>7. Cardinality({i \in a .. b : i < a + k - 1}) = k - 1
    BY <1>2, <1>4, <1>6
  <1>8. a + k - 1 \in a .. b
    OBVIOUS
  <1> QED BY <1>1, <1>7, <1>8

LEMMA MediaSoundIs == MediaSound => MediaInv
  <1> SUFFICES ASSUME MediaSound PROVE MediaInv
    OBVIOUS
  <1>0. ask \in Asks /\ ask.size \in Nat
    BY AskIs DEF MediaSound
  <1>1. MediaTypeOK
    BY DEF MediaSound, MediaTypeOK, Source, Pair, MediaPhases
  <1>2. CASE phase \in {"idle", "asked", "refused"}
    <2>1. body = <<>> /\ Len(body) = 0
      BY <1>2, NoBytes DEF MediaSound
    <2>2. Cardinality(Wanted) \in Nat
      <3>1. IsFiniteSet(0 .. (ask.size - 1))
        BY <1>0, FS_Interval
      <3>2. Wanted \in SUBSET (0 .. (ask.size - 1))
        BY DEF Wanted
      <3>3. IsFiniteSet(Wanted)
        BY <3>1, <3>2, FS_Subset
      <3> QED BY <3>3, FS_CardinalityType
    <2>3. BodyIsRange
      BY <1>2, <2>1, <2>2 DEF BodyIsRange, MediaSound
    <2>4. OnlyAuthentic
      BY <2>1 DEF OnlyAuthentic
    <2> QED BY <1>1, <2>3, <2>4 DEF MediaInv
  <1>3. CASE phase \in {"streaming", "aborted", "done"}
    <2>0. Answers
      BY <1>3 DEF MediaSound
    <2>1. PICK a \in Int, b \in Int : a = sel[1] /\ b = sel[2]
      BY <2>0 DEF Answers, Wants, Pair
    <2>2. Wanted = a .. b /\ 0 <= a /\ a <= b + 1 /\ b < ask.size /\ Len(body) <= b - a + 1 /\ RunOf(body, a) /\ Len(body) \in Nat
      BY <2>0, <2>1 DEF Answers, Wants, Asked, RunOf
    <2>3. Cardinality(Wanted) = b - a + 1
      <3>1. Cardinality(a .. b) = IF a > b THEN 0 ELSE b - a + 1
        BY FS_Interval
      <3> QED BY <2>2, <3>1
    <2>4. ASSUME NEW k \in 1 .. Len(body)
          PROVE  body[k] \in Wanted /\ Cardinality({i \in Wanted : i < body[k]}) = k - 1
      <3>1. body[k] = a + k - 1 /\ k \in Nat /\ 1 <= k /\ k <= b - a + 1
        BY <2>2 DEF RunOf
      <3> QED BY <2>2, <3>1, BytesBefore
    <2>5. phase = "done" => charged /\ (Len(body) = b - a + 1 \/ (ask.kind = "dav" /\ ask.lost # 0))
      BY <2>1 DEF MediaSound, Asked
    <2>6. BodyIsRange
      BY <1>3, <2>2, <2>3, <2>4, <2>5 DEF BodyIsRange
    <2>7. OnlyAuthentic
      <3> SUFFICES ASSUME ask.kind = "protected"
                   PROVE  /\ \A k \in 1 .. Len(body) : body[k] \div RecordLength # ask.bad
                          /\ (ask.size # 0 /\ Len(body) = ask.size) => ask.bad # Records(ask.size)
        BY DEF OnlyAuthentic
      <3>1. RecordsFit /\ Wants(sel) /\ ask.size # 0
        BY <2>0 DEF Answers, RecordsFit
      <3>2. ASSUME Len(body) = ask.size PROVE ask.bad # Records(ask.size)
        <4>1. a = 0 /\ b = ask.size - 1 /\ WholeFile(sel)
          BY <1>0, <2>1, <2>2, <3>2 DEF WholeFile
        <4>2. PICK f \in Nat, l \in Nat : f = FirstRecord(sel) /\ l = LastRecord(sel)
          BY <1>0, <3>1, RecordsAre
        <4>3. l * RecordLength <= b /\ l * RecordLength \in Nat /\ rec \in Nat
          BY <1>0, <2>1, <3>1, <4>2, RecordsAre, StreamConstants DEF MediaSound
        <4>4. rec # f /\ Len(body) = Least(b + 1, rec * RecordLength) - a
          BY <1>0, <2>1, <3>1, <3>2, <4>2 DEF RecordsFit, Decrypted
        <4>5. rec > l
          <5> SUFFICES ASSUME rec <= l PROVE FALSE
            BY <4>2, <4>3
          <5>1. rec * RecordLength <= l * RecordLength /\ rec * RecordLength \in Nat
            BY <4>2, <4>3, StreamConstants, TimesGrows
          <5> QED BY <1>0, <3>2, <4>1, <4>3, <4>4, <5>1 DEF Least
        <4> QED BY <3>1, <4>1, <4>2, <4>5 DEF RecordsFit
      <3> QED BY <3>1, <3>2 DEF RecordsFit
    <2> QED BY <1>1, <2>6, <2>7 DEF MediaInv
  <1> QED BY <1>2, <1>3 DEF MediaSound, MediaPhases

(***************************************************************************)
(* A client that asks for a range gets those bytes, in order and complete  *)
(* or cut short at the end, and none of a record that did not              *)
(* authenticate, for every alignment, chunk and record length              *)
(* (stream_media, slice_media_chunks, decrypt_reader.rs, read_range).      *)
(***************************************************************************)
THEOREM MediaInvariant == MediaSpec => []MediaInv
  <1>1. MediaInit => MediaSound
    BY MediaStarts
  <1>2. MediaSound /\ [MediaNext]_streamVars => MediaSound'
    BY MediaStep
  <1>3. MediaSound => MediaInv
    BY MediaSoundIs
  <1> QED BY <1>1, <1>2, <1>3, PTL DEF MediaSpec

-----------------------------------------------------------------------------
(***************************************************************************)
(* What is published opens and is what its source held: exactly, for a     *)
(* protected file whose source stayed the same; chunk by chunk and of one  *)
(* version, short of a continued leftover, for a file from a URL           *)
(* (ProtectedInv and UrlInv; commands/fs.rs).                              *)
(***************************************************************************)
THEOREM PublishedInvariant == ProtectedSpec /\ UrlSpec => []PublishedInv
  BY ProtectedInvariant, UrlInvariant, PTL DEF PublishedInv

(***************************************************************************)
(* Whatever the local servers serve is right: the ranges of the streaming  *)
(* routes (server.rs) and the files of WebDAV (webdav.rs).                 *)
(***************************************************************************)
THEOREM ServedInvariant == MediaSpec /\ DavSpec => []ServedInv
  BY MediaInvariant, DavInvariant, PTL DEF ServedInv
==============================================================================
