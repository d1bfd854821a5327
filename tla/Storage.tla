------------------------------- MODULE Storage -------------------------------
(***************************************************************************)
(* LocalFileStorage: the directory of each request, the job that works in  *)
(* it and releases it, and the cron that removes what crashed jobs left.   *)
(* The cron reads the age of a directory in one step and removes it in a   *)
(* later one; the job is a different thread and takes no lock.             *)
(***************************************************************************)
EXTENDS Naturals

CONSTANTS
    Request,      \* download requests, each with its own directory
    JobTimeout,   \* JOB_TIMEOUT_SECONDS
    CancelLag,    \* how long a cancelled job still holds its directory
    Grace,        \* stale_request_grace_seconds
    MaxScan,      \* bound: how long one pass of the cron takes
    MaxTries,     \* arq's max_tries
    MaxStops,     \* bound: worker crashes
    MaxFailures   \* bound: removals that fail

ASSUME StorageAssumption ==
    /\ JobTimeout \in Nat \ {0}
    /\ CancelLag \in Nat /\ Grace \in Nat /\ CancelLag <= Grace
    /\ MaxScan \in Nat /\ MaxTries \in Nat
    /\ MaxStops \in Nat /\ MaxFailures \in Nat

NoEntry == "no entry"

ASSUME EntryAssumption == NoEntry \notin Request

VARIABLES
    up,        \* whether the worker runs
    stops,     \* its crashes so far
    failures,  \* removals that have failed so far
    job,       \* where the job of a request stands
    tries,     \* its attempts
    held,      \* age of the present attempt
    made,      \* whether this attempt created the directory
    dir,       \* whether the directory exists
    fresh,     \* whether it holds a file that the present attempt wrote
    quiet,     \* time since the newest mtime in it
    writer,    \* a child process that survives its job: none, running, ended
    todo,      \* entries the cron has still to look at
    doomed,    \* the entry it has found expired
    scan,      \* time since the pass began; the cron is idle when todo and
               \* doomed are empty
    lost       \* requests whose present attempt lost a file to the cron

jobVars  == <<job, tries, held, made>>
fileVars == <<dir, fresh, quiet, writer>>
cronVars == <<todo, doomed, scan>>
vars == <<up, stops, failures, jobVars, fileVars, cronVars, lost>>

\* A bug: the grace alone.
GraceOnly == Grace

\* stale_request_after, which the cron passes on as max_age_seconds.
MaxAge == JobTimeout + Grace

\* From the start of execute to the end of its finally; "started" is before
\* the mkdir.
Working == {"started", "begun", "writing", "uploading", "releasing"}

\* A job is over when it has released, when it has returned before its try,
\* or when arq gives it up.
Over == {"released", "skipped", "given_up"}

Idle == todo = {} /\ doomed = NoEntry

Init ==
    /\ up = TRUE /\ stops = 0 /\ failures = 0
    /\ job = [r \in Request |-> "queued"]
    /\ tries = [r \in Request |-> 0]
    /\ held = [r \in Request |-> 0]
    /\ made = [r \in Request |-> FALSE]
    /\ dir = [r \in Request |-> FALSE]
    /\ fresh = [r \in Request |-> FALSE]
    /\ quiet = [r \in Request |-> 0]
    /\ writer = [r \in Request |-> "none"]
    /\ todo = {} /\ doomed = NoEntry /\ scan = 0
    /\ lost = {}

-----------------------------------------------------------------------------
(* The job.                                                                *)

\* arq starts an attempt: get_by_id and what follows it up to the mkdir.
StartJob(r) ==
    /\ up /\ job[r] = "queued" /\ tries[r] < MaxTries
    /\ job' = [job EXCEPT ![r] = "started"]
    /\ tries' = [tries EXCEPT ![r] = @ + 1]
    /\ held' = [held EXCEPT ![r] = 0]
    /\ made' = [made EXCEPT ![r] = FALSE]
    /\ fresh' = [fresh EXCEPT ![r] = FALSE]
    /\ lost' = lost \ {r}
    /\ UNCHANGED <<up, stops, failures, dir, quiet, writer, cronVars>>

\* The returns before the try: the record cannot be read or is gone, its user
\* is gone, claim_for_processing refuses it, as it does when an earlier attempt
\* or the reaper has settled it; or an error or job_timeout ends the attempt
\* there.  Nothing is made and nothing is released.
SkipJob(r) ==
    /\ job[r] = "started"
    /\ job' = [job EXCEPT ![r] = "skipped"]
    /\ UNCHANGED <<up, stops, failures, tries, held, made, fileVars, cronVars,
                   lost>>

\* temp_dir_for_request: mkdir(exist_ok) leaves the times of a directory that
\* exists as they are.
TempDirForRequest(r) ==
    /\ job[r] = "started"
    /\ job' = [job EXCEPT ![r] = "begun"]
    /\ made' = [made EXCEPT ![r] = ~dir[r]]
    /\ dir' = [dir EXCEPT ![r] = TRUE]
    /\ quiet' = [quiet EXCEPT ![r] = IF dir[r] THEN @ ELSE 0]
    /\ UNCHANGED <<up, stops, failures, tries, held, fresh, writer, cronVars,
                   lost>>

\* The child writes; yt-dlp makes the directory again if it is gone.
WriteFile(r) ==
    /\ job[r] \in {"begun", "writing"}
    /\ job' = [job EXCEPT ![r] = "writing"]
    /\ dir' = [dir EXCEPT ![r] = TRUE]
    /\ fresh' = [fresh EXCEPT ![r] = TRUE]
    /\ quiet' = [quiet EXCEPT ![r] = 0]
    /\ UNCHANGED <<up, stops, failures, tries, held, made, writer, cronVars,
                   lost>>

\* The upload reads the file and leaves its time alone.
Upload(r) ==
    /\ job[r] = "writing"
    /\ job' = [job EXCEPT ![r] = "uploading"]
    /\ UNCHANGED <<up, stops, failures, tries, held, made, fileVars, cronVars,
                   lost>>

\* The claimed job ends, by itself or at job_timeout, before the mkdir if the
\* disk is nearly full; the child of a download that timed out may not have
\* gone.
EndJob(r) ==
    /\ job[r] \in Working \ {"releasing"}
    /\ job' = [job EXCEPT ![r] = "releasing"]
    /\ \/ UNCHANGED writer
       \/ job[r] = "writing" /\ writer' = [writer EXCEPT ![r] = "running"]
    /\ UNCHANGED <<up, stops, failures, tries, held, made, dir, fresh, quiet,
                   cronVars, lost>>

\* A bug: a directory without a file of this attempt is kept.
ReleaseDelivered(r) ==
    /\ job[r] = "releasing"
    /\ job' = [job EXCEPT ![r] = "released"]
    /\ dir' = [dir EXCEPT ![r] = dir[r] /\ ~fresh[r]]
    /\ fresh' = [fresh EXCEPT ![r] = FALSE]
    /\ UNCHANGED <<up, stops, failures, tries, held, made, quiet, writer,
                   cronVars, lost>>

\* release: the directory goes, if it is there.
Release(r) ==
    /\ job[r] = "releasing"
    /\ job' = [job EXCEPT ![r] = "released"]
    /\ dir' = [dir EXCEPT ![r] = FALSE]
    /\ fresh' = [fresh EXCEPT ![r] = FALSE]
    /\ UNCHANGED <<up, stops, failures, tries, held, made, quiet, writer,
                   cronVars, lost>>

\* _remove could not remove all of it: storage_release_incomplete.
ReleaseIncomplete(r) ==
    /\ job[r] = "releasing" /\ dir[r] /\ failures < MaxFailures
    /\ failures' = failures + 1
    /\ job' = [job EXCEPT ![r] = "released"]
    /\ quiet' \in {quiet, [quiet EXCEPT ![r] = 0]}
    /\ UNCHANGED <<up, stops, tries, held, made, dir, fresh, writer, cronVars,
                   lost>>

\* A child that has outlived its job goes on writing.
WriteLate(r) ==
    /\ writer[r] = "running"
    /\ dir' = [dir EXCEPT ![r] = TRUE]
    /\ quiet' = [quiet EXCEPT ![r] = 0]
    /\ UNCHANGED <<up, stops, failures, jobVars, fresh, writer, cronVars, lost>>

WriterEnds(r) ==
    /\ writer[r] = "running"
    /\ writer' = [writer EXCEPT ![r] = "ended"]
    /\ UNCHANGED <<up, stops, failures, jobVars, dir, fresh, quiet, cronVars,
                   lost>>

-----------------------------------------------------------------------------
(* The cron: cleanup_expired.                                              *)

\* time.time() and iterdir().
StartScan ==
    /\ up /\ Idle
    /\ \E r \in Request : dir[r]
    /\ todo' = {r \in Request : dir[r]}
    /\ scan' = 0
    /\ UNCHANGED <<up, stops, failures, jobVars, fileVars, doomed, lost>>

\* A bug: the threshold is added twice.
LookWrongly(r) ==
    /\ r \in todo /\ doomed = NoEntry
    /\ todo' = todo \ {r}
    /\ doomed' = (IF dir[r] /\ quiet[r] > scan + JobTimeout + MaxAge THEN r
                  ELSE NoEntry)
    /\ UNCHANGED <<up, stops, failures, jobVars, fileVars, scan, lost>>

\* _last_activity and the comparison; a directory that is gone is skipped.
Look(r) ==
    /\ r \in todo /\ doomed = NoEntry
    /\ todo' = todo \ {r}
    /\ doomed' = (IF dir[r] /\ quiet[r] > scan + MaxAge THEN r ELSE NoEntry)
    /\ UNCHANGED <<up, stops, failures, jobVars, fileVars, scan, lost>>

\* _size_bytes and _remove, of whatever is in the directory by now.
Remove(r) ==
    /\ doomed = r
    /\ doomed' = NoEntry
    /\ dir' = [dir EXCEPT ![r] = FALSE]
    /\ fresh' = [fresh EXCEPT ![r] = FALSE]
    /\ lost' = (IF fresh[r] /\ job[r] \in Working THEN lost \union {r}
                ELSE lost)
    /\ UNCHANGED <<up, stops, failures, jobVars, quiet, writer, todo, scan>>

\* Something resists: the directory stays, perhaps with less in it.
RemoveFails(r) ==
    /\ doomed = r /\ failures < MaxFailures
    /\ failures' = failures + 1
    /\ doomed' = NoEntry
    /\ quiet' \in {quiet, [quiet EXCEPT ![r] = 0]}
    /\ \/ UNCHANGED <<fresh, lost>>
       \/ /\ fresh' = [fresh EXCEPT ![r] = FALSE]
          /\ lost' = (IF fresh[r] /\ job[r] \in Working THEN lost \union {r}
                      ELSE lost)
    /\ UNCHANGED <<up, stops, jobVars, dir, writer, todo, scan>>

-----------------------------------------------------------------------------
(* The worker and the clock.                                               *)

\* The container goes, with jobs, children and the cron's pass; arq runs the
\* jobs again, or gives them up after max_tries.
Crash ==
    /\ up /\ stops < MaxStops
    /\ up' = FALSE
    /\ stops' = stops + 1
    /\ job' = [r \in Request |->
                  IF job[r] \in Working
                  THEN IF tries[r] < MaxTries THEN "queued" ELSE "given_up"
                  ELSE job[r]]
    /\ writer' = [r \in Request |->
                     IF writer[r] = "running" THEN "ended" ELSE writer[r]]
    /\ todo' = {} /\ doomed' = NoEntry /\ scan' = 0
    /\ UNCHANGED <<failures, tries, held, made, dir, fresh, quiet, lost>>

Restart ==
    /\ ~up
    /\ up' = TRUE
    /\ UNCHANGED <<stops, failures, jobVars, fileVars, cronVars, lost>>

\* No job outlives job_timeout by more than its cancellation takes.
Tick ==
    /\ \A r \in Request :
          job[r] \in Working => held[r] < JobTimeout + CancelLag
    /\ ~Idle => scan < MaxScan
    /\ held' = [r \in Request |->
                  IF job[r] \in Working THEN held[r] + 1 ELSE held[r]]
    /\ quiet' = [r \in Request |->
                  IF dir[r] /\ quiet[r] <= MaxAge + MaxScan THEN quiet[r] + 1
                  ELSE quiet[r]]
    /\ scan' = (IF Idle THEN scan ELSE scan + 1)
    /\ \E r \in Request : job[r] \in Working \/ dir[r]
    /\ UNCHANGED <<up, stops, failures, job, tries, made, dir, fresh, writer,
                   todo, doomed, lost>>

JobStep(r) ==
    \/ StartJob(r) \/ SkipJob(r) \/ TempDirForRequest(r) \/ WriteFile(r)
    \/ Upload(r) \/ EndJob(r) \/ Release(r) \/ ReleaseIncomplete(r)
    \/ WriteLate(r) \/ WriterEnds(r)

CronStep(r) == Look(r) \/ Remove(r) \/ RemoveFails(r)

Next ==
    \/ \E r \in Request : JobStep(r)
    \/ StartScan
    \/ \E r \in Request : CronStep(r)
    \/ Crash \/ Restart \/ Tick

Spec == Init /\ [][Next]_vars

\* The clock, the cron and the container's restart policy go on; jobs are
\* cancelled in the end and release, and a child that was left behind ends.
FairSpec ==
    /\ Spec
    /\ WF_vars(Tick) /\ WF_vars(Restart) /\ WF_vars(StartScan)
    /\ \A r \in Request :
          /\ WF_vars(CronStep(r))
          /\ WF_vars(held[r] = JobTimeout + CancelLag /\ EndJob(r))
          /\ WF_vars(Release(r) \/ ReleaseIncomplete(r))
          /\ WF_vars(WriterEnds(r))

-----------------------------------------------------------------------------
\* The variables have their types: no attempt is older than its timeout and
\* cancellation allow.
TypeOK ==
    /\ up \in BOOLEAN
    /\ stops \in 0 .. MaxStops
    /\ failures \in 0 .. MaxFailures
    /\ job \in [Request -> Working \union Over \union {"queued"}]
    /\ tries \in [Request -> 0 .. MaxTries]
    /\ held \in [Request -> 0 .. (JobTimeout + CancelLag)]
    /\ made \in [Request -> BOOLEAN]
    /\ dir \in [Request -> BOOLEAN]
    /\ fresh \in [Request -> BOOLEAN]
    /\ quiet \in [Request -> 0 .. (MaxAge + MaxScan + 1)]
    /\ writer \in [Request -> {"none", "running", "ended"}]
    /\ todo \subseteq Request
    /\ doomed \in Request \union {NoEntry}
    /\ scan \in 0 .. MaxScan
    /\ lost \subseteq Request

\* What keeps an attempt's own directory off the cron's list: it is no older
\* than the attempt, and the cron has not condemned it before.
OwnDirIsYoung ==
    \A r \in Request :
        job[r] \in Working /\ made[r] => quiet[r] <= held[r] /\ doomed # r

\* A directory the cron has condemned stays until it is removed while no
\* attempt has come as far as it.
DoomedIsThere ==
    doomed # NoEntry /\ job[doomed] \in {"queued", "started"} => dir[doomed]

\* An attempt has written and lost nothing before its mkdir.
StartsAfresh ==
    \A r \in Request : job[r] = "started" => ~fresh[r] /\ r \notin lost

\* A child that outlives its job does not outlive the worker: no attempt meets
\* one of an earlier attempt.
WriterIsAlone ==
    \A r \in Request :
        writer[r] = "running" => job[r] \in {"releasing", "released"}

\* A job that was claimed leaves nothing behind, however it ends and whatever
\* an earlier attempt left there, unless a removal failed or a child went on
\* writing (release in the finally of execute).  One that ends before its try
\* leaves what an attempt that crashed had left, and otherwise nothing.
ReleasedAtTheEnd ==
    \A r \in Request : dir[r] =>
        /\ job[r] = "released" => failures > 0 \/ writer[r] # "none"
        /\ job[r] \in {"queued", "started", "skipped"} => stops > 0

\* The inductive invariant behind LiveFilesKept: what an attempt has made is
\* younger than the cron's threshold, and what a job leaves behind has a reason
\* (temp_dir_for_request, cleanup_expired, release).
StorageInv ==
    /\ TypeOK /\ OwnDirIsYoung /\ DoomedIsThere /\ StartsAfresh
    /\ WriterIsAlone /\ ReleasedAtTheEnd

\* The cron takes no file from an attempt that created its directory, however
\* its steps fall between those of the cron ("nothing a live job is writing
\* can be that quiet", local_storage.py).
LiveFilesKept == \A r \in lost : ~made[r]

\* What is left of a request that is over is removed in the end.
LeftoversGo ==
    \A r \in Request : (job[r] \in Over /\ dir[r]) ~> ~dir[r]
=============================================================================
