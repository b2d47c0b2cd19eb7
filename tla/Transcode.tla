----------------------------- MODULE Transcode -----------------------------
(***************************************************************************)
(* Video conversions of one file (transcode.rs, fmp4_remux.rs): jobs that  *)
(* share one cached original and write one output each, a worker lease     *)
(* that keeps eviction and clearing away from what a job uses, the         *)
(* cancellation of a job, sign-outs in the middle of it, a crash, and the  *)
(* cleanup of old partial outputs that runs beside them after a start.     *)
(***************************************************************************)
EXTENDS Naturals

CONSTANTS Variants,    \* outputs of the file: qualities and the remux
          Remuxes,     \* the variants made by fmp4_remux.rs
          MaxJobs,     \* bound: jobs ever created
          MaxEpochs,   \* bound: account sessions
          MaxCrashes   \* bound: restarts

ASSUME TranscodeAssumption ==
  /\ Remuxes \subseteq Variants /\ Variants # {}
  /\ MaxJobs \in Nat \ {0} /\ MaxEpochs \in Nat \ {0} /\ MaxCrashes \in Nat

VARIABLES
  tjobs,     \* TranscodeManager.jobs: Variant -> job, 0 for none
  job,       \* job -> its TranscodeJob, WorkerState and where its worker is
  lastJob,   \* the last job created
  source,    \* the lock of the original: the job that holds it, 0 for none
  original,  \* originals/<file>.mp4 is there
  out,       \* Variant -> its output on disk
  aged,      \* hls/<file> was last changed more than a day ago
  cleaning,  \* clean_partial_outputs
  epoch,     \* the account session
  crashes

transcodeVars == <<tjobs, job, lastJob, source, original, out, aged, cleaning, epoch, crashes>>

TranscodeJobs == 1..MaxJobs
\* partial: files and no playlist; broken: a playlist that misses files
OutStates == {"none", "writing", "partial", "broken", "whole"}
NoTranscode == [v |-> CHOOSE v \in Variants : TRUE, at |-> "none", live |-> FALSE, cancelled |-> FALSE, armed |-> FALSE,
          signal |-> FALSE, phase |-> "none", guard |-> 0]

TranscodeInit ==
  /\ tjobs = [v \in Variants |-> 0] /\ job = [j \in TranscodeJobs |-> NoTranscode] /\ lastJob = 0
  /\ source = 0 /\ original = FALSE /\ out = [v \in Variants |-> "none"] /\ aged = FALSE
  /\ cleaning = "look" /\ epoch = 1 /\ crashes = 0

GuardHolds(j) == job[j].guard = epoch
Remux(j) == job[j].v \in Remuxes
Playlist(v) == out[v] \in {"broken", "whole"}

\* The slip of giving up a worker when it is told to stop.
LiveAndWanted(j) == j # 0 /\ job[j].live /\ ~job[j].cancelled

HasLiveWriter(j) == j # 0 /\ job[j].live

\* The lease is dropped: the command or the task ends.
Ends(j, phase) == job' = [job EXCEPT ![j].at = "done", ![j].live = FALSE, ![j].phase = phase]

\* The pipeline ends in a phase.  A conversion evicts before it drops its
\* lease, a remux after.
Leaves(j, phase) ==
  job' = [job EXCEPT ![j].at = IF Remux(j) THEN "drop" ELSE "evict", ![j].phase = phase]

Failed(j) == IF job[j].cancelled /\ ~Remux(j) THEN "cancelled" ELSE "error"

\* ---- cmd_prepare_transcoded_stream, cmd_prepare_fmp4_stream
GetOrCreateJob(v) ==
  /\ ~HasLiveWriter(tjobs[v]) /\ lastJob < MaxJobs
  /\ lastJob' = lastJob + 1 /\ tjobs' = [tjobs EXCEPT ![v] = lastJob']
  /\ job' = [job EXCEPT ![lastJob'] =
       [NoTranscode EXCEPT !.v = v, !.at = "new", !.live = TRUE, !.phase = "pending", !.guard = epoch]]
  /\ UNCHANGED <<source, original, out, aged, cleaning, epoch, crashes>>

\* An output that is there and whole is served; a broken one is removed.
CheckOutput(j) ==
  /\ job[j].at = "new"
  /\ IF out[job[j].v] = "whole"
     THEN Ends(j, IF GuardHolds(j) THEN "ready" ELSE job[j].phase) /\ UNCHANGED <<out, aged>>
     ELSE /\ job' = [job EXCEPT ![j].at = "prepare", ![j].armed = ~Remux(j)]
          /\ IF Playlist(job[j].v) THEN out' = [out EXCEPT ![job[j].v] = "none"] /\ aged' = FALSE
             ELSE UNCHANGED <<out, aged>>
  /\ UNCHANGED <<tjobs, lastJob, source, original, cleaning, epoch, crashes>>

PrepareFails(j) ==
  /\ job[j].at = "prepare" /\ Ends(j, IF Remux(j) THEN "error" ELSE job[j].phase)
  /\ UNCHANGED <<tjobs, lastJob, source, original, out, aged, cleaning, epoch, crashes>>

PrepareCancelled(j) ==
  /\ job[j].at = "prepare" /\ job[j].signal /\ Ends(j, "cancelled")
  /\ UNCHANGED <<tjobs, lastJob, source, original, out, aged, cleaning, epoch, crashes>>

SpawnWorker(j) ==
  /\ job[j].at = "prepare" /\ GuardHolds(j)
  /\ job' = [job EXCEPT ![j].at = "lock", ![j].armed = @ \/ Remux(j)]
  /\ UNCHANGED <<tjobs, lastJob, source, original, out, aged, cleaning, epoch, crashes>>

\* ---- execute_transcode_pipeline and the remux task
LockSource(j) ==
  /\ job[j].at = "lock" /\ source = 0 /\ source' = j
  /\ job' = [job EXCEPT ![j].at = IF original THEN "source" ELSE "cache",
                        ![j].phase = IF original THEN @ ELSE "caching"]
  /\ UNCHANGED <<tjobs, lastJob, original, out, aged, cleaning, epoch, crashes>>

LockCancelled(j) ==
  /\ job[j].at = "lock" /\ job[j].signal /\ Leaves(j, IF Remux(j) THEN "error" ELSE "cancelled")
  /\ UNCHANGED <<tjobs, lastJob, source, original, out, aged, cleaning, epoch, crashes>>

\* cache_original: the part file is renamed when it has the size announced.
CacheOriginal(j) ==
  /\ job[j].at = "cache" /\ GuardHolds(j) /\ original' = TRUE
  /\ job' = [job EXCEPT ![j].at = "source"]
  /\ UNCHANGED <<tjobs, lastJob, source, out, aged, cleaning, epoch, crashes>>

CacheFails(j) ==
  /\ job[j].at = "cache" /\ source' = 0 /\ Leaves(j, Failed(j))
  /\ UNCHANGED <<tjobs, lastJob, original, out, aged, cleaning, epoch, crashes>>

\* The source is let go and FFmpeg started, unless the account changed or the
\* original is too small for the quality.
StartFfmpeg(j) ==
  /\ job[j].at = "source" /\ source' = 0 /\ GuardHolds(j)
  /\ job' = [job EXCEPT ![j].at = "ffmpeg", ![j].phase = "transcoding"]
  /\ out' = [out EXCEPT ![job[j].v] = "writing"]
  /\ aged' = (aged /\ (Remux(j) \/ out[job[j].v] # "none"))
  /\ UNCHANGED <<tjobs, lastJob, original, cleaning, epoch, crashes>>

StartRefused(j) ==
  /\ job[j].at = "source" /\ source' = 0 /\ (GuardHolds(j) => ~Remux(j))
  /\ Leaves(j, "error") /\ UNCHANGED <<tjobs, lastJob, original, out, aged, cleaning, epoch, crashes>>

\* validate_hls_output
FfmpegDone(j) ==
  /\ job[j].at = "ffmpeg" /\ ~Remux(j) /\ GuardHolds(j)
  /\ IF out[job[j].v] = "writing" /\ original
     THEN out' = [out EXCEPT ![job[j].v] = "whole"] /\ Leaves(j, "ready") /\ UNCHANGED aged
     ELSE out' = [out EXCEPT ![job[j].v] = "none"] /\ Leaves(j, Failed(j)) /\ aged' = FALSE
  /\ UNCHANGED <<tjobs, lastJob, source, original, cleaning, epoch, crashes>>

\* FFmpeg fails, is not there, or is killed for a cancellation or a sign-out;
\* a sign-out seen only after it was done leaves what it wrote.
FfmpegFails(j) ==
  /\ job[j].at = "ffmpeg" /\ ~Remux(j) /\ Leaves(j, Failed(j))
  /\ \E o \in {"none", "partial", "whole"} :
       /\ o = "whole" => ~GuardHolds(j) /\ out[job[j].v] = "writing"
       /\ out' = [out EXCEPT ![job[j].v] = o]
  /\ aged' = FALSE /\ UNCHANGED <<tjobs, lastJob, source, original, cleaning, epoch, crashes>>

\* The remux writes a part file: published by a rename, or removed.
PublishOutput(j) ==
  /\ job[j].at = "ffmpeg" /\ Remux(j) /\ GuardHolds(j) /\ original
  /\ out' = [out EXCEPT ![job[j].v] = "whole"] /\ Leaves(j, "ready")
  /\ UNCHANGED <<tjobs, lastJob, source, original, aged, cleaning, epoch, crashes>>

RemuxFails(j) ==
  /\ job[j].at = "ffmpeg" /\ Remux(j) /\ Leaves(j, "error")
  /\ out' = [out EXCEPT ![job[j].v] = "none"]
  /\ UNCHANGED <<tjobs, lastJob, source, original, aged, cleaning, epoch, crashes>>

\* ---- evict_lru, under the lock of the jobs
\* The slip of protecting the original only while it is fetched.
OriginalProtectedCaching == \E v \in Variants : HasLiveWriter(tjobs[v]) /\ job[tjobs[v]].phase = "caching"

OriginalProtected == \E v \in Variants : HasLiveWriter(tjobs[v])

OutputProtected(v) ==
  \/ HasLiveWriter(tjobs[v])
  \/ v \in Remuxes /\ \E u \in Variants : HasLiveWriter(tjobs[u])

\* What the removal of some files leaves of an output.
Eroded(v) ==
  IF v \in Remuxes THEN {out[v], "none"}
  ELSE CASE out[v] = "whole" -> {"whole", "broken", "partial"} [] out[v] = "broken" -> {"broken", "partial"}
         [] OTHER -> {out[v]}

EvictLru(j) ==
  /\ job[j].at = "evict"
  /\ out' \in {o \in [Variants -> OutStates] :
                 \A v \in Variants : o[v] \in IF OutputProtected(v) THEN {out[v]} ELSE Eroded(v)}
  /\ original' \in IF OriginalProtected THEN {original} ELSE {original, FALSE}
  /\ job' = [job EXCEPT ![j].at = IF Remux(j) THEN "done" ELSE "drop"]
  /\ UNCHANGED <<tjobs, lastJob, source, aged, cleaning, epoch, crashes>>

DropLease(j) ==
  /\ job[j].at = "drop"
  /\ job' = [job EXCEPT ![j].live = FALSE, ![j].at = IF Remux(j) THEN "evict" ELSE "done"]
  /\ UNCHANGED <<tjobs, lastJob, source, original, out, aged, cleaning, epoch, crashes>>

\* ---- cmd_cancel_transcode.  A job without a channel yet is only marked.
CancelTranscode(v) ==
  /\ tjobs[v] # 0
  /\ LET cut == job[tjobs[v]] IN job' = [job EXCEPT ![tjobs[v]] =
       [cut EXCEPT !.cancelled = TRUE, !.signal = cut.signal \/ cut.armed, !.armed = FALSE, !.phase = "cancelled"]]
  /\ UNCHANGED <<tjobs, lastJob, source, original, out, aged, cleaning, epoch, crashes>>

\* ---- cmd_clear_transcode_cache, under the lock of the jobs
ClearFile ==
  /\ \A v \in Variants : ~HasLiveWriter(tjobs[v])
  /\ out' = [v \in Variants |-> "none"] /\ original' = FALSE /\ aged' = FALSE
  /\ UNCHANGED <<tjobs, job, lastJob, source, cleaning, epoch, crashes>>

ClearVariant(v) ==
  /\ v \notin Remuxes /\ \A u \in Variants : ~HasLiveWriter(tjobs[u])
  /\ out' = [out EXCEPT ![v] = "none"] /\ aged' = FALSE
  /\ original' = (original /\ \E u \in Variants \ Remuxes : u # v /\ out[u] # "none")
  /\ UNCHANGED <<tjobs, job, lastJob, source, cleaning, epoch, crashes>>

\* ---- clean_partial_outputs: no lock is held between the look and the removal.
CleanupLooks ==
  /\ cleaning = "look"
  /\ cleaning' = IF aged /\ \A v \in Variants \ Remuxes : ~Playlist(v) THEN "remove" ELSE "done"
  /\ UNCHANGED <<tjobs, job, lastJob, source, original, out, aged, epoch, crashes>>

CleanupRemoves ==
  /\ cleaning = "remove" /\ cleaning' = "done" /\ aged' = FALSE
  /\ out' = [v \in Variants |-> IF v \in Remuxes THEN out[v] ELSE "none"]
  /\ UNCHANGED <<tjobs, job, lastJob, source, original, epoch, crashes>>

\* ---- the environment
AccountChanges ==
  /\ epoch < MaxEpochs /\ epoch' = epoch + 1
  /\ UNCHANGED <<tjobs, job, lastJob, source, original, out, aged, cleaning, crashes>>

\* The process ends, and is started again at once or days later.
TranscodeCrash ==
  /\ crashes < MaxCrashes /\ crashes' = crashes + 1
  /\ tjobs' = [v \in Variants |-> 0] /\ source' = 0 /\ cleaning' = "look"
  /\ job' = [j \in TranscodeJobs |-> IF j <= lastJob THEN [NoTranscode EXCEPT !.at = "done"] ELSE NoTranscode]
  /\ out' = [v \in Variants |-> IF out[v] = "writing" THEN "partial" ELSE out[v]]
  /\ aged' \in {aged, \E v \in Variants \ Remuxes : out[v] # "none"}
  /\ UNCHANGED <<lastJob, original, epoch>>

WorkerStep(j) ==
  \/ CheckOutput(j) \/ PrepareFails(j) \/ PrepareCancelled(j) \/ SpawnWorker(j)
  \/ LockSource(j) \/ LockCancelled(j) \/ CacheOriginal(j) \/ CacheFails(j)
  \/ StartFfmpeg(j) \/ StartRefused(j) \/ FfmpegDone(j) \/ FfmpegFails(j)
  \/ PublishOutput(j) \/ RemuxFails(j)
  \/ EvictLru(j) \/ DropLease(j)

TranscodeNext ==
  \/ \E j \in TranscodeJobs : WorkerStep(j)
  \/ \E v \in Variants : GetOrCreateJob(v) \/ CancelTranscode(v) \/ ClearVariant(v)
  \/ ClearFile \/ CleanupLooks \/ CleanupRemoves \/ AccountChanges \/ TranscodeCrash

TranscodeSpec == TranscodeInit /\ [][TranscodeNext]_transcodeVars

TranscodeTypeOK ==
  /\ tjobs \in [Variants -> 0..lastJob] /\ lastJob \in 0..MaxJobs /\ source \in 0..lastJob
  /\ \A j \in TranscodeJobs : job[j].v \in Variants /\ job[j].guard <= epoch
  /\ original \in BOOLEAN /\ aged \in BOOLEAN /\ out \in [Variants -> OutStates]
  /\ cleaning \in {"look", "remove", "done"} /\ epoch \in 1..MaxEpochs /\ crashes \in 0..MaxCrashes

Writing(j) == job[j].at \in {"new", "prepare", "lock", "cache", "source", "ffmpeg"}

(* No two workers are on the same output, also when a conversion is asked  *)
(* for again while the cancelled one is still stopping (get_or_create_job, *)
(* wait_for_worker).                                                       *)
OneWriterPerOutput == \A i, j \in TranscodeJobs : i # j /\ Writing(i) /\ Writing(j) => job[i].v # job[j].v

(* What a live job works with is not taken away by the eviction of another *)
(* job, by a clear or by another worker: the original from when it has it, *)
(* its output from when FFmpeg writes it (evict_lru, the lease).           *)
LiveFilesKept ==
  [][\A j \in TranscodeJobs : (HasLiveWriter(j) /\ job'[j] = job[j] /\ cleaning' = cleaning) =>
       /\ job[j].at \in {"source", "ffmpeg"} => (original => original')
       /\ (job[j].at = "ffmpeg" \/ (job[j].at = "drop" /\ job[j].phase = "ready"))
            => out'[job[j].v] = out[job[j].v]]_transcodeVars

(* The cleanup of old partial outputs never removes what a live job        *)
(* writes: clean_partial_outputs says of itself that it cannot race a      *)
(* transcode begun immediately after launch.                               *)
CleanupSparesLive ==
  [][\A j \in TranscodeJobs : job[j].at = "ffmpeg" /\ cleaning = "remove" /\ cleaning' = "done"
       => out'[job[j].v] = out[job[j].v]]_transcodeVars

(* The jobs of one video, through restarts of jobs, sessions and process.  *)
TranscodeInv == TranscodeTypeOK /\ OneWriterPerOutput
=============================================================================
