------------------------- MODULE DownloadLifecycle -------------------------
(***************************************************************************)
(* The life of a download request across the three parties that write it:  *)
(*                                                                         *)
(*   - the bot process, which saves the row and enqueues its job           *)
(*     (RequestDownloadUseCase.execute);                                   *)
(*   - the arq worker process, which runs the job                          *)
(*     (ProcessDownloadUseCase.execute), cancels it at job_timeout, and    *)
(*     may crash, be redeployed, and run the job again;                    *)
(*   - the reaper, a cron of the same worker                               *)
(*     (ReapStaleRequestsUseCase.execute).                                 *)
(*                                                                         *)
(* They share the download_requests row, which every repository call       *)
(* writes in a transaction of its own, and the request's temp directory.   *)
(* One action is one such call, so any two of them interleave.             *)
(*                                                                         *)
(* Time is kept as ages: rowAge is now - updated_at, age is the time since *)
(* arq started an attempt, ttl what is left of arq's in-progress key.      *)
(***************************************************************************)
EXTENDS Naturals, FiniteSets

CONSTANTS
    Request,        \* the requests users make
    Unreadable,     \* those whose stored spec this build cannot read
    Orphan,         \* those whose user may be gone, or without telegram id
    JobTimeout,     \* JOB_TIMEOUT_SECONDS
    Grace,          \* stale_request_grace_seconds
    Slack,          \* arq keeps its in-progress key job_timeout + Slack
    CancelLag,      \* how long a cancelled job may still take to unwind
    MaxTries,       \* arq's max_tries
    BatchSize,      \* REAPER_BATCH_SIZE
    EnqueueFaults,  \* ways an enqueue may raise: "lost", "unsure"
    DiskGuard,      \* min_free_disk_bytes # 0
    MaxStops        \* bound: how often the worker process goes down

ASSUME RequestAssumption ==
    /\ Unreadable \subseteq Request
    /\ Orphan \subseteq Request

ASSUME TimeAssumption ==
    /\ JobTimeout \in Nat \ {0}
    /\ Grace \in Nat
    /\ Slack \in Nat \ {0}
    /\ CancelLag \in Nat

ASSUME BoundAssumption ==
    /\ MaxTries \in Nat \ {0}
    /\ BatchSize \in Nat \ {0}
    /\ MaxStops \in Nat

ASSUME FaultAssumption ==
    /\ EnqueueFaults \subseteq {"lost", "unsure"}
    /\ DiskGuard \in BOOLEAN

VARIABLES
    status,     \* the row's status column ("absent" before create)
    rowAge,     \* time since the row's updated_at
    bot,        \* how far RequestDownloadUseCase.execute got
    job,        \* arq's job: not enqueued, in the queue, or finished
    tries,      \* arq's job_try counter
    ttl,        \* what is left of the in-progress key, 0 once it is gone
    pc,         \* where each attempt at the job stands
    age,        \* time since arq started the attempt
    retry,      \* the attempt was cancelled by a shutdown: arq reruns it
    dir,        \* the request's temp directory
    upload,     \* what became of the file each attempt handed to Telegram
    notices,    \* how many failure texts the user received
    published,  \* the last phase published for the progress card
    reaped,     \* rows fail_stale returned that are still to be notified
    worker,     \* the worker process
    stops       \* how often it went down

rowVars   == <<status, rowAge>>
queueVars == <<job, tries, ttl>>
tryVars   == <<pc, age, retry>>
userVars  == <<upload, notices, published>>
procVars  == <<reaped, worker, stops>>

vars == <<status, rowAge, bot, job, tries, ttl, pc, age, retry, dir,
          upload, notices, published, reaped, worker, stops>>

Try == 1 .. MaxTries

(***************************************************************************)
(* Statuses.  _ACTIVE_STATUSES are the ones a job or the reaper may still  *)
(* move; stale_request_after is the silence after which the reaper does.   *)
(***************************************************************************)
Active   == {"pending", "processing"}
Terminal == {"done", "failed"}
Status   == {"absent"} \cup Active \cup Terminal

StaleAfter == JobTimeout + Grace

(***************************************************************************)
(* Positions of an attempt inside ProcessDownloadUseCase.  "poisoned" is a *)
(* download whose progress publish has raised: the task that forwards      *)
(* progress is dead, and its exception waits for the download to end.      *)
(* "uploading" lasts until Telegram has the whole file, "sent" until       *)
(* Telegram's reply is there.                                              *)
(***************************************************************************)
Unclaimed == {"started", "loaded", "corrupt"}
Working   == {"claimed", "downloading", "poisoned", "downloaded",
              "uploading", "sent", "delivered", "failing"}
Closing   == {"doneWritten", "marked", "telling"}
Cleaning  == {"draining", "releasing", "ended"}

\* Running attempts are the ones asyncio.wait_for still has a timer on.
Running == Unclaimed \cup Working \cup Closing
PC      == {"none"} \cup Running \cup Cleaning

\* The statements that may raise something execute does not catch: the
\* repository calls, the disk probe, the download and the upload.
Fallible == Unclaimed \cup (Working \ {"downloaded"})

\* "downloading" is the whole stream of _on_progress, CONVERTING included.
Phase == {"none", "downloading", "uploading", "done", "failed"}

TypeOK ==
    /\ status \in [Request -> Status]
    /\ rowAge \in [Request -> 0 .. StaleAfter + 1]
    /\ bot \in [Request -> {"idle", "created", "returned", "failing",
                            "raised", "dead"}]
    /\ job \in [Request -> {"none", "queued", "finished"}]
    /\ tries \in [Request -> 0 .. MaxTries]
    /\ ttl \in [Request -> 0 .. JobTimeout + Slack]
    /\ pc \in [Request -> [Try -> PC]]
    /\ age \in [Request -> [Try -> 0 .. JobTimeout + CancelLag]]
    /\ retry \in [Request -> [Try -> BOOLEAN]]
    /\ dir \in [Request -> {"absent", "empty", "file"}]
    /\ upload \in [Request -> [Try -> {"none", "flying", "arrived"}]]
    /\ notices \in [Request -> Nat]
    /\ published \in [Request -> Phase]
    /\ reaped \in SUBSET Request
    /\ worker \in {"up", "stopping", "down"}
    /\ stops \in 0 .. MaxStops

Init ==
    /\ status = [r \in Request |-> "absent"]
    /\ rowAge = [r \in Request |-> 0]
    /\ bot = [r \in Request |-> "idle"]
    /\ job = [r \in Request |-> "none"]
    /\ tries = [r \in Request |-> 0]
    /\ ttl = [r \in Request |-> 0]
    /\ pc = [r \in Request |-> [k \in Try |-> "none"]]
    /\ age = [r \in Request |-> [k \in Try |-> 0]]
    /\ retry = [r \in Request |-> [k \in Try |-> FALSE]]
    /\ dir = [r \in Request |-> "absent"]
    /\ upload = [r \in Request |-> [k \in Try |-> "none"]]
    /\ notices = [r \in Request |-> 0]
    /\ published = [r \in Request |-> "none"]
    /\ reaped = {}
    /\ worker = "up"
    /\ stops = 0

-----------------------------------------------------------------------------
(***************************************************************************)
(* Repository writes.  Each stamps updated_at; update and                  *)
(* mark_failed_by_id write the status whatever it was before.              *)
(***************************************************************************)
Write(r, s) ==
    /\ status' = [status EXCEPT ![r] = s]
    /\ rowAge' = [rowAge EXCEPT ![r] = 0]

\* Bugs of Stale: the grace alone as the silence, no job_timeout; and a
\* query that forgets the rows no job has claimed yet.
StaleIgnoringTimeout(r) == status[r] \in Active /\ rowAge[r] > Grace
StaleProcessingOnly(r)  == status[r] = "processing" /\ rowAge[r] > StaleAfter

\* The rows fail_stale may move: active, last updated before the cutoff.
Stale(r) == status[r] \in Active /\ rowAge[r] > StaleAfter

(***************************************************************************)
(* The bot: RequestDownloadUseCase.execute, past validation and policy.    *)
(***************************************************************************)
Create(r) ==
    /\ bot[r] = "idle"
    /\ bot' = [bot EXCEPT ![r] = "created"]
    /\ Write(r, "pending")
    /\ UNCHANGED <<queueVars, tryVars, dir, userVars, procVars>>

EnqueueDownload(r) ==
    /\ bot[r] = "created"
    /\ bot' = [bot EXCEPT ![r] = "returned"]
    /\ job' = [job EXCEPT ![r] = "queued"]
    /\ UNCHANGED <<rowVars, tries, ttl, tryVars, dir, userVars, procVars>>

\* enqueue_job raises.  "lost": nothing reached Redis.  "unsure": Redis has
\* executed the transaction and the connection broke before the reply.
EnqueueRaises(r) ==
    /\ bot[r] = "created"
    /\ bot' = [bot EXCEPT ![r] = "failing"]
    /\ \E fault \in EnqueueFaults :
         job' = [job EXCEPT ![r] = IF fault = "unsure" THEN "queued" ELSE @]
    /\ UNCHANGED <<rowVars, tries, ttl, tryVars, dir, userVars, procVars>>

\* A bug of EnqueueFailed: the error is raised and the row left as it is.
EnqueueFailedUnmarked(r) ==
    /\ bot[r] = "failing"
    /\ bot' = [bot EXCEPT ![r] = "raised"]
    /\ UNCHANGED <<rowVars, queueVars, tryVars, dir, userVars, procVars>>

\* The except branch: mark_failed_by_id, then raise DownloadEnqueueError.
EnqueueFailed(r) ==
    /\ bot[r] = "failing"
    /\ bot' = [bot EXCEPT ![r] = "raised"]
    /\ Write(r, "failed")
    /\ UNCHANGED <<queueVars, tryVars, dir, userVars, procVars>>

\* The bot goes down (or the database does) before execute is through.
BotDies(r) ==
    /\ bot[r] \in {"created", "failing"}
    /\ bot' = [bot EXCEPT ![r] = "dead"]
    /\ UNCHANGED <<rowVars, queueVars, tryVars, dir, userVars, procVars>>

-----------------------------------------------------------------------------
(***************************************************************************)
(* arq: it starts a queued job that has no in-progress key, gives up on    *)
(* one that used its tries, and takes a job that returned or raised off    *)
(* the queue.  Only a job cancelled by a shutdown stays queued.            *)
(***************************************************************************)
Startable(r) == worker = "up" /\ job[r] = "queued" /\ ttl[r] = 0

StartJob(r) ==
    /\ Startable(r)
    /\ tries[r] < MaxTries
    /\ tries' = [tries EXCEPT ![r] = @ + 1]
    /\ ttl' = [ttl EXCEPT ![r] = JobTimeout + Slack]
    /\ pc' = [pc EXCEPT ![r][tries[r] + 1] = "started"]
    /\ age' = [age EXCEPT ![r][tries[r] + 1] = 0]
    /\ UNCHANGED <<rowVars, bot, job, retry, dir, userVars, procVars>>

GiveUp(r) ==
    /\ Startable(r)
    /\ tries[r] = MaxTries
    /\ job' = [job EXCEPT ![r] = "finished"]
    /\ UNCHANGED <<rowVars, bot, tries, ttl, tryVars, dir, userVars, procVars>>

FinishJob(r, k) ==
    /\ pc[r][k] = "ended"
    /\ pc' = [pc EXCEPT ![r][k] = "none"]
    /\ age' = [age EXCEPT ![r][k] = 0]
    /\ retry' = [retry EXCEPT ![r][k] = FALSE]
    /\ job' = [job EXCEPT ![r] = IF retry[r][k] THEN @ ELSE "finished"]
    /\ ttl' = [ttl EXCEPT ![r] = 0]
    /\ UNCHANGED <<rowVars, bot, tries, dir, userVars, procVars>>

-----------------------------------------------------------------------------
(***************************************************************************)
(* The worker: ProcessDownloadUseCase.execute, one attempt k at request r. *)
(***************************************************************************)
GoTo(r, k, p) == pc' = [pc EXCEPT ![r][k] = p]

\* Where an attempt goes when it returns or raises at p: the finally clause
\* covers the code after the claim, and an unreadable row is never claimed.
Finally(r, p) ==
    IF p \in Unclaimed \/ r \in Unreadable THEN "ended" ELSE "releasing"

\* Where a CancelledError takes it.  YtDlpDownloader.download awaits the
\* task that forwards progress, so a cancelled download first waits for its
\* thread; a poisoned one finds that task dead and unwinds at once.
Cancelled(r, p) == IF p = "downloading" THEN "draining" ELSE Finally(r, p)

\* _publish_phase: the card moves to the phase, or the publish is lost.
PublishPhase(r, phase) ==
    \/ published' = [published EXCEPT ![r] = phase]
    \/ UNCHANGED published

\* What looking for the user may find.
UserFound(r) == IF r \in Orphan THEN BOOLEAN ELSE {TRUE}

\* get_by_id and the user lookup.
LoadRequest(r, k) ==
    /\ pc[r][k] = "started"
    /\ \E found \in UserFound(r) :
         GoTo(r, k, IF r \in Unreadable THEN "corrupt"
                    ELSE IF found THEN "loaded" ELSE "ended")
    /\ UNCHANGED <<rowVars, bot, queueVars, age, retry, dir, userVars,
                   procVars>>

\* _report_corrupted_record up to the user lookup.
MarkCorrupted(r, k) ==
    /\ pc[r][k] = "corrupt"
    /\ Write(r, "failed")
    /\ \E found \in UserFound(r) :
         GoTo(r, k, IF found THEN "marked" ELSE "ended")
    /\ UNCHANGED <<bot, queueVars, age, retry, dir, userVars, procVars>>

\* A bug of ClaimForProcessing: a plain update instead of the compare-and-set.
ClaimBlindly(r, k) ==
    /\ pc[r][k] = "loaded"
    /\ Write(r, "processing")
    /\ GoTo(r, k, "claimed")
    /\ UNCHANGED <<bot, queueVars, age, retry, dir, userVars, procVars>>

\* claim_for_processing, a compare-and-set on the active statuses.
ClaimForProcessing(r, k) ==
    /\ pc[r][k] = "loaded"
    /\ IF status[r] \in Active
         THEN Write(r, "processing") /\ GoTo(r, k, "claimed")
         ELSE UNCHANGED rowVars /\ GoTo(r, k, "ended")
    /\ UNCHANGED <<bot, queueVars, age, retry, dir, userVars, procVars>>

\* The disk guard refuses the download ...
RefuseLowDisk(r, k) ==
    /\ pc[r][k] = "claimed"
    /\ DiskGuard
    /\ GoTo(r, k, "failing")
    /\ UNCHANGED <<rowVars, bot, queueVars, age, retry, dir, userVars,
                   procVars>>

\* ... or the directory is made (mkdir exist_ok) and the download begins.
StartDownload(r, k) ==
    /\ pc[r][k] = "claimed"
    /\ dir' = [dir EXCEPT ![r] = IF @ = "absent" THEN "empty" ELSE @]
    /\ GoTo(r, k, "downloading")
    /\ UNCHANGED <<rowVars, bot, queueVars, age, retry, userVars, procVars>>

\* _on_progress: publish, without _publish_phase's guard.  The forwarding
\* task survives the cancellation of the job it belongs to.
OnProgress(r, k) ==
    /\ pc[r][k] \in {"downloading", "draining"}
    /\ \/ /\ published' = [published EXCEPT ![r] = "downloading"]
          /\ UNCHANGED pc
       \/ /\ pc[r][k] = "downloading"
          /\ GoTo(r, k, "poisoned")
          /\ UNCHANGED published
    /\ UNCHANGED <<rowVars, bot, queueVars, age, retry, dir, upload,
                   notices, procVars>>

\* The download leaves its file; awaiting the dead forwarding task raises.
DownloadReturns(r, k) ==
    /\ pc[r][k] \in {"downloading", "poisoned"}
    /\ dir[r] # "absent"
    /\ dir' = [dir EXCEPT ![r] = "file"]
    /\ GoTo(r, k, IF pc[r][k] = "poisoned" THEN "releasing" ELSE "downloaded")
    /\ UNCHANGED <<rowVars, bot, queueVars, age, retry, userVars, procVars>>

\* ExtractionError or UnsupportedURLError, the download timeout included.
DownloadFails(r, k) ==
    /\ pc[r][k] \in {"downloading", "poisoned"}
    /\ GoTo(r, k, IF pc[r][k] = "poisoned" THEN "releasing" ELSE "failing")
    /\ UNCHANGED <<rowVars, bot, queueVars, age, retry, dir, userVars,
                   procVars>>

PublishUploading(r, k) ==
    /\ pc[r][k] = "downloaded"
    /\ GoTo(r, k, "uploading")
    /\ PublishPhase(r, "uploading")
    /\ UNCHANGED <<rowVars, bot, queueVars, age, retry, dir, upload,
                   notices, procVars>>

\* send_file, up to where the Bot API server has the whole file.
SendFile(r, k) ==
    /\ pc[r][k] = "uploading"
    /\ dir[r] = "file"
    /\ upload' = [upload EXCEPT ![r][k] = "flying"]
    /\ GoTo(r, k, "sent")
    /\ UNCHANGED <<rowVars, bot, queueVars, age, retry, dir, notices,
                   published, procVars>>

\* The server's own work on an upload ends and the user has the file.  It
\* does not ask what became of the client: after a request timeout, a
\* cancellation or a crash the file may arrive all the same, or never.
Arrive(r, k) ==
    /\ upload[r][k] = "flying"
    /\ upload' = [upload EXCEPT ![r][k] = "arrived"]
    /\ UNCHANGED <<rowVars, bot, queueVars, tryVars, dir, notices, published,
                   procVars>>

SendFileReturns(r, k) ==
    /\ pc[r][k] = "sent"
    /\ upload[r][k] = "arrived"
    /\ GoTo(r, k, "delivered")
    /\ UNCHANGED <<rowVars, bot, queueVars, age, retry, dir, userVars,
                   procVars>>

\* NotifierError: the file is too large, Telegram refuses it or cannot be
\* reached; or the request times out while Telegram goes on with the file.
SendFileRaises(r, k) ==
    /\ \/ pc[r][k] = "uploading" /\ dir[r] = "file"
       \/ pc[r][k] = "sent"
    /\ GoTo(r, k, "failing")
    /\ UNCHANGED <<rowVars, bot, queueVars, age, retry, dir, userVars,
                   procVars>>

UpdateDone(r, k) ==
    /\ pc[r][k] = "delivered"
    /\ Write(r, "done")
    /\ GoTo(r, k, "doneWritten")
    /\ UNCHANGED <<bot, queueVars, age, retry, dir, userVars, procVars>>

PublishDone(r, k) ==
    /\ pc[r][k] = "doneWritten"
    /\ PublishPhase(r, "done")
    /\ GoTo(r, k, "releasing")
    /\ UNCHANGED <<rowVars, bot, queueVars, age, retry, dir, upload,
                   notices, procVars>>

\* _fail: update, publish FAILED, send_text.  The corrupted-record path
\* shares the last two.
UpdateFailed(r, k) ==
    /\ pc[r][k] = "failing"
    /\ Write(r, "failed")
    /\ GoTo(r, k, "marked")
    /\ UNCHANGED <<bot, queueVars, age, retry, dir, userVars, procVars>>

PublishFailed(r, k) ==
    /\ pc[r][k] = "marked"
    /\ PublishPhase(r, "failed")
    /\ GoTo(r, k, "telling")
    /\ UNCHANGED <<rowVars, bot, queueVars, age, retry, dir, upload,
                   notices, procVars>>

\* send_text delivers, or raises NotifierError: execute is over either way.
SendText(r, k) ==
    /\ pc[r][k] = "telling"
    /\ \E n \in {0, 1} : notices' = [notices EXCEPT ![r] = @ + n]
    /\ GoTo(r, k, Finally(r, "telling"))
    /\ UNCHANGED <<rowVars, bot, queueVars, age, retry, dir, upload,
                   published, procVars>>

\* Any exception execute does not catch: the database, the disk, a file
\* that is gone when it is to be uploaded.
Escape(r, k) ==
    /\ pc[r][k] \in Fallible
    /\ GoTo(r, k, Finally(r, pc[r][k]))
    /\ UNCHANGED <<rowVars, bot, queueVars, age, retry, dir, userVars,
                   procVars>>

\* asyncio.wait_for cancels the attempt at job_timeout.
JobTimesOut(r, k) ==
    /\ pc[r][k] \in Running
    /\ age[r][k] = JobTimeout
    /\ GoTo(r, k, Cancelled(r, pc[r][k]))
    /\ UNCHANGED <<rowVars, bot, queueVars, age, retry, dir, userVars,
                   procVars>>

\* The thread of a cancelled download ends, its file complete or not.
DrainEnds(r, k) ==
    /\ pc[r][k] = "draining"
    /\ GoTo(r, k, "releasing")
    /\ \E left \in {dir[r], "file"} :
         dir' = [dir EXCEPT ![r] = IF @ = "absent" THEN @ ELSE left]
    /\ UNCHANGED <<rowVars, bot, queueVars, age, retry, userVars, procVars>>

\* LocalFileStorage.release never raises; a removal that fails leaves the
\* directory to the cleanup cron.
Release(r, k) ==
    /\ pc[r][k] = "releasing"
    /\ GoTo(r, k, "ended")
    /\ \E left \in {"absent", dir[r]} : dir' = [dir EXCEPT ![r] = left]
    /\ UNCHANGED <<rowVars, bot, queueVars, age, retry, userVars, procVars>>

-----------------------------------------------------------------------------
(***************************************************************************)
(* The reaper: fail_stale moves a batch in one transaction, then each row  *)
(* it moved is notified.                                                   *)
(***************************************************************************)
Batches ==
    LET stale == {r \in Request : Stale(r)}
    IN  {S \in SUBSET stale : /\ S # {}
                              /\ Cardinality(S) <= BatchSize
                              /\ S = stale \/ Cardinality(S) = BatchSize}

FailStale ==
    /\ worker = "up"
    /\ \E S \in Batches :
         /\ status' = [r \in Request |-> IF r \in S THEN "failed" ELSE status[r]]
         /\ rowAge' = [r \in Request |-> IF r \in S THEN 0 ELSE rowAge[r]]
         /\ reaped' = reaped \cup S
    /\ UNCHANGED <<bot, queueVars, tryVars, dir, userVars, worker, stops>>

\* _notify: a user who is gone, or a send that raises, is logged.
NotifyStale(r) ==
    /\ r \in reaped
    /\ reaped' = reaped \ {r}
    /\ \E n \in {0, 1} :
         notices' = [notices EXCEPT ![r] = @ + n]
    /\ UNCHANGED <<rowVars, bot, queueVars, tryVars, dir, upload,
                   published, worker, stops>>

-----------------------------------------------------------------------------
(***************************************************************************)
(* The worker process.  A crash loses every attempt and the reaper's list  *)
(* of rows to notify, and leaves Redis, the rows and the files.  SIGTERM   *)
(* cancels the attempts; the container's kill may cut the unwinding short. *)
(***************************************************************************)
Crash ==
    /\ \/ worker = "up" /\ stops < MaxStops /\ stops' = stops + 1
       \/ worker = "stopping" /\ UNCHANGED stops
    /\ worker' = "down"
    /\ pc' = [r \in Request |-> [k \in Try |-> "none"]]
    /\ age' = [r \in Request |-> [k \in Try |-> 0]]
    /\ retry' = [r \in Request |-> [k \in Try |-> FALSE]]
    /\ reaped' = {}
    /\ UNCHANGED <<rowVars, bot, queueVars, dir, userVars>>

Shutdown ==
    /\ worker = "up"
    /\ stops < MaxStops
    /\ stops' = stops + 1
    /\ worker' = "stopping"
    /\ pc' = [r \in Request |-> [k \in Try |->
                IF pc[r][k] \in Running THEN Cancelled(r, pc[r][k])
                                        ELSE pc[r][k]]]
    /\ retry' = [r \in Request |-> [k \in Try |->
                   pc[r][k] \in Running \cup {"draining", "releasing"}]]
    /\ reaped' = {}
    /\ UNCHANGED <<rowVars, bot, queueVars, age, dir, userVars>>

ShutdownEnds ==
    /\ worker = "stopping"
    /\ \A r \in Request, k \in Try : pc[r][k] = "none"
    /\ worker' = "down"
    /\ UNCHANGED <<rowVars, bot, queueVars, tryVars, dir, userVars, reaped,
                   stops>>

Restart ==
    /\ worker = "down"
    /\ worker' = "up"
    /\ UNCHANGED <<rowVars, bot, queueVars, tryVars, dir, userVars, reaped,
                   stops>>

(***************************************************************************)
(* One unit of time passes.  It cannot pass a job_timeout that is due, nor *)
(* the end of the time a cancelled attempt needs.  A row's age is only     *)
(* ever compared with StaleAfter, and only while the row is active.        *)
(***************************************************************************)
\* A bug of Limit: the thread of a cancelled download is waited for longer
\* than arq's in-progress key lasts.
LimitBeyondKey(p) ==
    IF p \in Running THEN JobTimeout ELSE JobTimeout + CancelLag + Slack

Limit(p) == IF p \in Running THEN JobTimeout ELSE JobTimeout + CancelLag

Tick ==
    /\ \A r \in Request, k \in Try :
         pc[r][k] # "none" => age[r][k] < Limit(pc[r][k])
    /\ rowAge' = [r \in Request |->
                    IF status[r] \in Active /\ rowAge[r] <= StaleAfter
                      THEN rowAge[r] + 1 ELSE rowAge[r]]
    /\ ttl' = [r \in Request |-> IF ttl[r] = 0 THEN 0 ELSE ttl[r] - 1]
    /\ age' = [r \in Request |-> [k \in Try |->
                 IF pc[r][k] = "none" THEN 0 ELSE age[r][k] + 1]]
    /\ UNCHANGED <<status, bot, job, tries, pc, retry, dir, userVars, procVars>>

-----------------------------------------------------------------------------
BotStep(r) ==
    \/ Create(r) \/ EnqueueDownload(r) \/ EnqueueRaises(r)
    \/ EnqueueFailed(r) \/ BotDies(r)

Attempt(r, k) ==
    \/ LoadRequest(r, k) \/ MarkCorrupted(r, k) \/ ClaimForProcessing(r, k)
    \/ RefuseLowDisk(r, k) \/ StartDownload(r, k) \/ OnProgress(r, k)
    \/ DownloadReturns(r, k) \/ DownloadFails(r, k) \/ PublishUploading(r, k)
    \/ SendFile(r, k) \/ SendFileReturns(r, k) \/ SendFileRaises(r, k)
    \/ UpdateDone(r, k)
    \/ PublishDone(r, k) \/ UpdateFailed(r, k) \/ PublishFailed(r, k)
    \/ SendText(r, k) \/ Escape(r, k) \/ JobTimesOut(r, k)
    \/ DrainEnds(r, k) \/ Release(r, k) \/ FinishJob(r, k)

Next ==
    \/ \E r \in Request : BotStep(r)
    \/ \E r \in Request : StartJob(r) \/ GiveUp(r) \/ NotifyStale(r)
    \/ \E r \in Request, k \in Try : Attempt(r, k) \/ Arrive(r, k)
    \/ FailStale
    \/ Crash \/ Shutdown \/ ShutdownEnds \/ Restart
    \/ Tick

Spec == Init /\ [][Next]_vars

(***************************************************************************)
(* The scheduling the deployment provides: the clock runs, arq polls, its  *)
(* timers fire, cancelled attempts unwind, the cron runs, and the          *)
(* container is restarted.  Nothing is assumed of the network: no step of  *)
(* a download, an upload or a message need ever happen.                    *)
(***************************************************************************)
Fairness ==
    /\ WF_vars(Tick)
    /\ WF_vars(FailStale)
    /\ WF_vars(Restart)
    /\ WF_vars(ShutdownEnds)
    /\ \A r \in Request :
         /\ WF_vars(StartJob(r))
         /\ WF_vars(GiveUp(r))
         /\ \A k \in Try :
              /\ WF_vars(JobTimesOut(r, k))
              /\ WF_vars(DrainEnds(r, k))
              /\ WF_vars(Release(r, k))
              /\ WF_vars(FinishJob(r, k))

FairSpec == Spec /\ Fairness

-----------------------------------------------------------------------------
(***************************************************************************)
(* Properties.                                                             *)
(***************************************************************************)

\* The enqueue raised although the job is in the queue: the bot is about to
\* overwrite, or has overwritten, the status of a request that has a job.
Doubtful(r) == bot[r] \in {"failing", "raised"} /\ job[r] # "none"

(***************************************************************************)
(* ADR 0004, "No live job can be that quiet": while an attempt works on a  *)
(* claimed request its row says PROCESSING and is no older than the        *)
(* attempt, so the reaper (fail_stale, every five minutes) never fails a   *)
(* request somebody is working on.  The one writer that can take the row   *)
(* away is the bot that wrongly believes the job was not enqueued.         *)
(***************************************************************************)
ClaimHolds ==
    \A r \in Request, k \in Try :
        pc[r][k] \in Working =>
            \/ status[r] = "processing" /\ rowAge[r] <= age[r][k]
            \/ status[r] \in Terminal /\ bot[r] = "raised"

(***************************************************************************)
(* worker_settings.py, "no job outlives this": arq never runs two attempts *)
(* at one request together, so an attempt's release of the shared temp     *)
(* directory is never a release of another attempt's files.  Depends on    *)
(* CancelLag < Slack.                                                      *)
(***************************************************************************)
OneAttemptAtATime ==
    \A r \in Request, k, l \in Try :
        pc[r][k] # "none" /\ pc[r][l] # "none" => k = l

(***************************************************************************)
(* Each further copy of the file is the price of one stop of the worker: a *)
(* crash or redeploy between send_file and update(DONE) makes arq run the  *)
(* job again, and nothing else does.  Depends on CancelLag < Slack.        *)
(***************************************************************************)
Copies(r) == {k \in Try : upload[r][k] = "arrived"}

ResentOnlyAfterStop == \A r \in Request : Cardinality(Copies(r)) <= 1 + stops

(***************************************************************************)
(* A user is told at most once that a readable request failed, whichever   *)
(* of _fail and the reaper gets there, and however often the job reruns.   *)
(***************************************************************************)
ToldAtMostOnce == \A r \in Request \ Unreadable : notices[r] <= 1

(***************************************************************************)
(* A DONE or FAILED row is never written again, although update and        *)
(* mark_failed_by_id do not look at the status they overwrite.  Again the  *)
(* exception is the bot that is wrong about the queue.                     *)
(***************************************************************************)
TerminalIsFinal ==
    [][\A r \in Request :
         status[r] \in Terminal /\ status'[r] # status[r] => Doubtful(r)]_vars

(***************************************************************************)
(* Once a user has been told by the job or the reaper that the request     *)
(* failed, no attempt hands its file to Telegram any more.  The file of an *)
(* upload that was handed over before may still arrive: settings.py admits *)
(* "an error followed by the file anyway".                                 *)
(***************************************************************************)
NoUploadAfterFailureText ==
    [][\A r \in Request, k \in Try :
         upload[r][k] = "none" /\ upload'[r][k] # "none" => notices[r] = 0]_vars

(***************************************************************************)
(* ProgressPhase, "DONE and FAILED are terminal: no event for the request  *)
(* follows them": no other phase is published after one of them, neither   *)
(* by a rerun of the job nor by the forwarding task of a cancelled one.    *)
(* Depends on CancelLag < Slack.                                           *)
(***************************************************************************)
FinalPhaseIsLast ==
    [][\A r \in Request :
         published[r] \in {"done", "failed"} => published'[r] = published[r]]_vars

(***************************************************************************)
(* ADR 0004's reason to exist: no request stays pending or processing      *)
(* forever, whatever was lost, crashed, timed out or never happened.       *)
(***************************************************************************)
EventuallySettled ==
    \A r \in Request : status[r] \in Active ~> status[r] \in Terminal

(***************************************************************************)
(* Every job leaves the queue: it is not rerun for ever, and a worker that *)
(* died with the in-progress key set does not strand it.                   *)
(***************************************************************************)
QueueDrains ==
    \A r \in Request : job[r] = "queued" ~> job[r] = "finished"

(***************************************************************************)
(* Both of these: the row and the queue come to rest, under the fairness   *)
(* of the clock, arq, the cron and the container's restart.                *)
(***************************************************************************)
EverythingSettles == EventuallySettled /\ QueueDrains

(***************************************************************************)
(* The contract of a request, as this system keeps it: what the user sees  *)
(* is the row's status, whether a copy of the file was handed to Telegram, *)
(* whether one arrived, and whether a failure text of the job or the       *)
(* reaper did.                                                             *)
(***************************************************************************)
Sent     == {r \in Request : \E k \in Try : upload[r][k] # "none"}
Received == {r \in Request : Copies(r) # {}}
Told     == {r \in Request : notices[r] > 0}

Contract == INSTANCE RequestContract WITH
    sent <- Sent, file <- Received, told <- Told

\* The whole life of a request keeps the contract of RequestContract: a
\* status only moves forward, DONE means the user has the file, nothing is
\* sent after a failure was reported, nothing arrives that was not sent, and
\* only FAILED requests are reported.
KeepsContract == Contract!Spec

-----------------------------------------------------------------------------
(***************************************************************************)
(* The inductive invariant behind the safety properties, in named parts.   *)
(***************************************************************************)

\* What exists when: no row before create, no attempt before the enqueue,
\* no attempt beyond the tries arq has counted, and no DONE without a job.
OriginInv ==
    \A r \in Request :
        /\ bot[r] = "idle" => status[r] = "absent"
        /\ bot[r] \in {"idle", "created"} => job[r] = "none"
        /\ job[r] = "none" => tries[r] = 0
        /\ status[r] = "done" => job[r] # "none" /\ r \notin Unreadable
        /\ \A k \in Try : pc[r][k] # "none" => k <= tries[r]

\* A running attempt is the latest one, of a worker that is up, and while
\* its job is queued arq's in-progress key outlasts its job_timeout.
LeaseInv ==
    /\ \A r \in Request, k \in Try :
         /\ pc[r][k] \in Running =>
              /\ worker = "up"
              /\ k = tries[r]
              /\ age[r][k] <= JobTimeout
              /\ job[r] = "queued" => age[r][k] + ttl[r] >= JobTimeout + Slack
         /\ retry[r][k] => worker = "stopping" /\ pc[r][k] # "none"
    /\ worker = "down" => \A r \in Request, k \in Try : pc[r][k] = "none"

\* Unreadable rows never get past the load, and a row is terminal by the
\* time its attempt publishes the final phase.
PathInv ==
    \A r \in Request, k \in Try :
        /\ pc[r][k] = "corrupt" => r \in Unreadable
        /\ pc[r][k] \in Working \cup {"loaded"} => r \notin Unreadable
        /\ pc[r][k] \in Closing => status[r] \in Terminal

\* Whoever is to tell the user of a failure is the only one, and only a
\* closed request is told about.
ToldInv ==
    \A r \in Request :
        /\ r \in reaped \/ notices[r] > 0 => status[r] \in Terminal
        /\ r \in reaped => notices[r] = 0 \/ r \in Unreadable
        /\ notices[r] <= 1 \/ r \in Unreadable
        /\ \A k \in Try :
             pc[r][k] \in Working \/ (pc[r][k] \in Closing /\ r \notin Unreadable
                                       /\ pc[r][k] # "doneWritten")
                 => notices[r] = 0 /\ r \notin reaped

\* Where an attempt has yet to hand its file to Telegram.
BeforeUpload == {"started", "loaded", "claimed", "downloading", "poisoned",
                 "downloaded", "uploading"}

\* An attempt hands over one file, and believes in its delivery only when the
\* user has it; an attempt that never ran has handed over nothing.
UploadInv ==
    \A r \in Request, k \in Try :
        /\ upload[r][k] # "none" => k <= tries[r]
        /\ pc[r][k] \in BeforeUpload => upload[r][k] = "none"
        /\ pc[r][k] = "delivered" => upload[r][k] = "arrived"

\* The parts together: every reachable state of the request's life, of all
\* its writers and of arq's bookkeeping, satisfies them, and every step of
\* the system preserves them.
CoreInv ==
    TypeOK /\ OriginInv /\ LeaseInv /\ ClaimHolds /\ PathInv /\ ToldInv

Inv == CoreInv /\ UploadInv

\* What CancelLag < Slack adds to Inv: whatever is left of an attempt, its job
\* is queued and the in-progress key outlasts all of the unwinding.
SoleInv ==
    \A r \in Request, k \in Try :
        pc[r][k] # "none" =>
            /\ k = tries[r]
            /\ job[r] = "queued"
            /\ age[r][k] + ttl[r] >= JobTimeout + Slack

\* Every start of the job but the first is paid for by a stop.
CopiesInv ==
    \A r \in Request :
        /\ tries[r] <= 1 + stops
        /\ \/ worker # "up"
           \/ job[r] = "queued" /\ \A k \in Try : pc[r][k] = "none"
           => tries[r] <= stops

\* Once a final phase is published the row is closed, and what is left of any
\* attempt has nothing to publish but the same phase.
PhaseInv ==
    \A r \in Request :
        /\ published[r] \in {"done", "failed"} =>
              /\ status[r] \in Terminal
              /\ published[r] = "done" => r \notin Unreadable
              /\ \A k \in Try :
                   /\ pc[r][k] \notin Working \cup {"draining", "doneWritten"}
                   /\ pc[r][k] = "marked" => r \in Unreadable
        /\ \A k \in Try : pc[r][k] = "doneWritten" => r \notin Unreadable

\* The parts together, preserved by every step if CancelLag < Slack.
SerialInv == SoleInv /\ CopiesInv /\ PhaseInv

\* DownloadEnqueueError: "its job could not be put on the queue ... The
\* request is already marked failed when this is raised".  When no enqueue
\* is in doubt this is so and stays so: whatever the worker and the reaper do
\* later, a request that was answered with the error is never revived and
\* none of its files is ever handed to Telegram.
EnqueueErrorIsFinal ==
    \A r \in Request :
        bot[r] = "raised" =>
            status[r] = "failed" /\ \A k \in Try : upload[r][k] = "none"

\* What the contract needs besides Inv, when no enqueue is in doubt: the row
\* is FAILED whenever somebody is about to say so.
ContractInv ==
    \A r \in Request :
        /\ ~Doubtful(r)
        /\ bot[r] # "idle" => status[r] # "absent"
        /\ r \in reaped => status[r] = "failed"
        /\ \A k \in Try :
             pc[r][k] \in {"marked", "telling"} => status[r] = "failed"

-----------------------------------------------------------------------------
(***************************************************************************)
(* What the repository says of itself and the code does not keep: checked  *)
(* by a run that expects TLC to refute it.                                 *)
(***************************************************************************)

(***************************************************************************)
(* ProcessDownloadUseCase, on progress: "A publish that fails is logged    *)
(* and ignored: the card is cosmetic, the delivery is not", so a download  *)
(* that leaves its file is followed by its upload.  Refuted when the       *)
(* publish that fails is one of _on_progress.                              *)
(***************************************************************************)
PublishNeverCostsDelivery ==
    [][\A r \in Request, k \in Try :
         DownloadReturns(r, k) => pc'[r][k] = "downloaded"]_vars

=============================================================================
