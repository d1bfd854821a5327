---------------------------- MODULE ChildProcess ----------------------------
(***************************************************************************)
(* One call of YtDlpDownloader: get_preview or download.  The coroutine    *)
(* waits for an executor thread, the thread waits for a child process, and *)
(* the child reports once through a pipe.  A download also carries         *)
(* progress: child, pipe, thread, bridge, forwarding task, callback.       *)
(*                                                                         *)
(* A step is one blocking call of the thread, one await of a coroutine,    *)
(* one write of the child or one signal.                                   *)
(***************************************************************************)
EXTENDS Naturals, Sequences

CONSTANTS
    Timeout,     \* preview_timeout_seconds or download_timeout_seconds
    Grace,       \* the 5 s of every join with a timeout
    JobTimeout,  \* JOB_TIMEOUT_SECONDS, which cancels a download
    PoolWait,    \* how long the executor's other work can keep a call waiting
    MaxEvents    \* bound: progress events the child emits

ASSUME ProcessAssumption ==
    /\ Timeout \in Nat \ {0}
    /\ Grace \in Nat \ {0}
    /\ JobTimeout \in Nat
    /\ JobTimeout > Timeout + Grace
    /\ PoolWait \in Nat
    /\ PoolWait < JobTimeout
    /\ MaxEvents \in Nat

VARIABLES
    kind,      \* which of the two calls this is
    caller,    \* the coroutine: at run_in_executor, in its finally, or back
    out,       \* what the coroutine returns or raises
    cancels,   \* what has cancelled it so far
    age,       \* time since a download was called
    thread,    \* the statement the executor thread is at
    result,    \* what the thread returned or raised
    waited,    \* age of the call when its thread started
    ran,       \* time since the thread started
    due,       \* when the timeout of its present wait ends, in terms of ran
    child,     \* the child process
    report,    \* the status the child put on result_queue
    large,     \* whether the report exceeds what a pipe holds
    pipe,      \* what of it is in the pipe of result_queue
    signals,   \* the signals sent to the child
    ffmpeg,    \* whether a postprocessor of the child runs
    emitted,   \* progress events put on progress_queue so far
    progress,  \* the events in the pipe of progress_queue
    sunk,      \* events the thread has handed to progress_sink
    bridge,    \* the asyncio queue: events by number, 0 for the STOP marker
    drain,     \* the task that runs _drain_bridge
    shown      \* events the callback has seen

callVars   == <<caller, out, cancels, age>>
threadVars == <<thread, result, waited, ran, due>>
childVars  == <<child, report, large, pipe, signals, ffmpeg>>
eventVars  == <<emitted, progress, sunk, bridge, drain, shown>>
vars == <<kind, callVars, threadVars, childVars, eventVars>>

Stop == 0

Statuses(k) == IF k = "preview"
               THEN {"ok", "empty", "extract_error", "error"}
               ELSE {"ok", "too_large", "extract_error", "error"}

\* Error texts have no bound; facts and sizes fit a pipe.
Texts == {"extract_error", "error"}

Alive == child \in {"working", "flushing"}
Expired == ran >= due

\* What the except clauses of get_preview and download make of a result.
Outcome(r) ==
    CASE r = "ok"            -> "ok"
      [] r = "too_large"     -> "too_large"
      [] r = "timeout"       -> "timeout"
      [] r = "extract_error" -> "classified"
      [] r = "os_error"      -> "os_error"
      [] OTHER               -> "extraction"

Init ==
    /\ kind \in {"preview", "download"}
    /\ caller = "await" /\ out = "none" /\ cancels = {} /\ age = 0
    /\ thread = "queued" /\ result = "none" /\ waited = 0 /\ ran = 0 /\ due = 0
    /\ child = "none" /\ report = "none" /\ large = FALSE /\ pipe = "empty"
    /\ signals = {} /\ ffmpeg = FALSE
    /\ emitted = 0 /\ progress = <<>> /\ sunk = 0 /\ bridge = <<>>
    /\ drain = (IF kind = "download" THEN "running" ELSE "none")
    /\ shown = 0

-----------------------------------------------------------------------------
(* The executor thread: start of the child.                                *)

\* The pool has a thread for the call and process.start() succeeds.
StartProcess ==
    /\ thread = "queued"
    /\ thread' = "loop"
    /\ due' = Timeout
    /\ waited' = age
    /\ child' = "working"
    /\ UNCHANGED <<kind, callVars, result, ran, report, large, pipe, signals,
                   ffmpeg, eventVars>>

\* Creating the queues or the process raises: before the try, so no STOP.
StartRaises ==
    /\ thread = "queued"
    /\ thread' = "done"
    /\ result' = "os_error"
    /\ waited' = age
    /\ UNCHANGED <<kind, callVars, ran, due, childVars, eventVars>>

-----------------------------------------------------------------------------
(* The thread of a download: _wait_and_drain_progress and what follows it. *)

\* The condition of the while loop, then its deadline.
PollDownload ==
    /\ kind = "download" /\ thread = "loop"
    /\ thread' = (IF Alive /\ ~Expired THEN "get" ELSE "over")
    /\ UNCHANGED <<kind, callVars, result, waited, ran, due, childVars,
                   eventVars>>

\* A bug: every event restarts the timeout.
GetEventAnew ==
    /\ kind = "download" /\ thread = "get" /\ progress # <<>>
    /\ thread' = "loop"
    /\ progress' = Tail(progress)
    /\ sunk' = sunk + 1
    /\ bridge' = Append(bridge, Head(progress))
    /\ due' = ran + Timeout
    /\ UNCHANGED <<kind, callVars, result, waited, ran, childVars, emitted,
                   drain, shown>>

\* progress_queue.get yields an event, which goes to the bridge.
GetEvent ==
    /\ kind = "download" /\ thread = "get" /\ progress # <<>>
    /\ thread' = "loop"
    /\ progress' = Tail(progress)
    /\ sunk' = sunk + 1
    /\ bridge' = Append(bridge, Head(progress))
    /\ UNCHANGED <<kind, callVars, result, waited, ran, due, childVars,
                   emitted, drain, shown>>

\* queue.Empty after at most half a second.
GetNothing ==
    /\ kind = "download" /\ thread = "get" /\ progress = <<>>
    /\ thread' = "loop"
    /\ UNCHANGED <<kind, callVars, result, waited, ran, due, childVars,
                   eventVars>>

\* After the loop: a living child is terminated, a dead one is reaped and
\* the finally sends STOP.
LoopOver ==
    /\ kind = "download" /\ thread = "over"
    /\ IF Alive
       THEN /\ thread' = "grace"
            /\ signals' = signals \union {"term"}
            /\ due' = ran + Grace
            /\ UNCHANGED bridge
       ELSE /\ thread' = "collect"
            /\ bridge' = Append(bridge, Stop)
            /\ UNCHANGED <<signals, due>>
    /\ UNCHANGED <<kind, callVars, result, waited, ran, child, report, large,
                   pipe, ffmpeg, emitted, progress, sunk, drain, shown>>

\* A bug: STOP is sent only when the download ends by itself.
GraceOverSilently ==
    /\ kind = "download" /\ thread = "grace"
    /\ ~Alive \/ Expired
    /\ thread' = "done"
    /\ result' = "timeout"
    /\ UNCHANGED <<kind, callVars, waited, ran, due, childVars, eventVars>>

\* join(5) ends either way, _DownloadTimeoutError passes the finally.
GraceOver ==
    /\ kind = "download" /\ thread = "grace"
    /\ ~Alive \/ Expired
    /\ thread' = "done"
    /\ result' = "timeout"
    /\ bridge' = Append(bridge, Stop)
    /\ UNCHANGED <<kind, callVars, waited, ran, due, childVars, emitted,
                   progress, sunk, drain, shown>>

\* result_queue.empty() and get(): a report of which the child could write
\* only a part keeps get() waiting for the rest.
CollectResult ==
    /\ kind = "download" /\ thread = "collect" /\ pipe # "part"
    /\ thread' = "done"
    /\ IF pipe = "empty"
       THEN result' = "no_result" /\ UNCHANGED pipe
       ELSE result' = report /\ pipe' = "read"
    /\ UNCHANGED <<kind, callVars, waited, ran, due, child, report, large,
                   signals, ffmpeg, eventVars>>

-----------------------------------------------------------------------------
(* The thread of a preview: _collect_preview_result and _stop_process.     *)

\* terminate(), then join(5).
Terminate ==
    /\ thread' = "stopping"
    /\ signals' = signals \union {"term"}
    /\ due' = ran + Grace

PollPreview ==
    /\ kind = "preview" /\ thread = "loop"
    /\ IF Expired
       THEN Terminate
       ELSE thread' = "get" /\ UNCHANGED <<signals, due>>
    /\ UNCHANGED <<kind, callVars, result, waited, ran, child, report, large,
                   pipe, ffmpeg, eventVars>>

\* result_queue.get: the whole report, the beginning of one that the child is
\* still writing, or queue.Empty; a second get follows the child's end.
GetReport ==
    /\ kind = "preview" /\ thread \in {"get", "last_get"}
    /\ CASE pipe = "whole" -> /\ thread' = "join"
                              /\ result' = report
                              /\ pipe' = "read"
                              /\ due' = ran + Grace
         [] pipe = "part"  -> thread' = "recv" /\ UNCHANGED <<result, pipe, due>>
         [] OTHER          -> /\ IF thread = "get"
                                 THEN thread' = "check" /\ UNCHANGED result
                                 ELSE thread' = "done" /\ result' = "no_result"
                              /\ UNCHANGED <<pipe, due>>
    /\ UNCHANGED <<kind, callVars, waited, ran, child, report, large, signals,
                   ffmpeg, eventVars>>

\* The rest of a long report has arrived.
ReceiveRest ==
    /\ kind = "preview" /\ thread = "recv" /\ pipe = "whole"
    /\ thread' = "join"
    /\ result' = report
    /\ pipe' = "read"
    /\ due' = ran + Grace
    /\ UNCHANGED <<kind, callVars, waited, ran, child, report, large, signals,
                   ffmpeg, eventVars>>

\* A bug: a child that is gone has not reported, without a second get.
CheckAliveOnce ==
    /\ kind = "preview" /\ thread = "check"
    /\ IF Alive THEN thread' = "loop" /\ UNCHANGED result
       ELSE thread' = "done" /\ result' = "no_result"
    /\ UNCHANGED <<kind, callVars, waited, ran, due, childVars, eventVars>>

\* process.is_alive() after queue.Empty.
CheckAlive ==
    /\ kind = "preview" /\ thread = "check"
    /\ thread' = (IF Alive THEN "loop" ELSE "last_get")
    /\ UNCHANGED <<kind, callVars, result, waited, ran, due, childVars,
                   eventVars>>

\* A bug: join() without a timeout.
JoinPreviewForever ==
    /\ kind = "preview" /\ thread = "join" /\ ~Alive
    /\ thread' = "done"
    /\ UNCHANGED <<kind, callVars, result, waited, ran, due, childVars,
                   eventVars>>

\* join(5) after the report; a child that is still there is stopped.
JoinPreview ==
    /\ kind = "preview" /\ thread = "join"
    /\ \/ /\ ~Alive
          /\ thread' = "done"
          /\ UNCHANGED <<signals, due>>
       \/ Alive /\ Expired /\ Terminate
    /\ UNCHANGED <<kind, callVars, result, waited, ran, child, report, large,
                   pipe, ffmpeg, eventVars>>

\* A bug: no kill() after the grace.
StopPreviewPolitely ==
    /\ kind = "preview" /\ thread = "stopping" /\ (~Alive \/ Expired)
    /\ thread' = "done"
    /\ result' = (IF result = "none" THEN "timeout" ELSE result)
    /\ UNCHANGED <<kind, callVars, waited, ran, due, childVars, eventVars>>

\* The end of _stop_process; a child that ignores SIGTERM is killed first.
StopPreview ==
    /\ kind = "preview"
    /\ \/ /\ thread \in {"stopping", "killing"} /\ ~Alive
          /\ thread' = "done"
          /\ result' = (IF result = "none" THEN "timeout" ELSE result)
          /\ UNCHANGED signals
       \/ /\ thread = "stopping" /\ Alive /\ Expired
          /\ thread' = "killing"
          /\ signals' = signals \union {"kill"}
          /\ UNCHANGED result
    /\ UNCHANGED <<kind, callVars, waited, ran, due, child, report, large,
                   pipe, ffmpeg, eventVars>>

-----------------------------------------------------------------------------
(* The child process.                                                      *)

\* yt-dlp's progress hook.
Emit ==
    /\ kind = "download" /\ child = "working" /\ emitted < MaxEvents
    /\ emitted' = emitted + 1
    /\ progress' = Append(progress, emitted + 1)
    /\ UNCHANGED <<kind, callVars, threadVars, childVars, sunk, bridge, drain,
                   shown>>

\* Merging and converting run in a process of their own.
RunFfmpeg ==
    /\ kind = "download" /\ child = "working" /\ ~ffmpeg
    /\ ffmpeg' = TRUE
    /\ UNCHANGED <<kind, callVars, threadVars, child, report, large, pipe,
                   signals, eventVars>>

FfmpegEnds ==
    /\ ffmpeg
    /\ ffmpeg' = FALSE
    /\ UNCHANGED <<kind, callVars, threadVars, child, report, large, pipe,
                   signals, eventVars>>

\* The one put of the entrypoint, whatever the extraction did.
Report ==
    /\ child = "working" /\ ~ffmpeg
    /\ child' = "flushing"
    /\ report' \in Statuses(kind)
    /\ large' \in (IF report' \in Texts THEN BOOLEAN ELSE {FALSE})
    /\ UNCHANGED <<kind, callVars, threadVars, pipe, signals, ffmpeg,
                   eventVars>>

\* The queue's feeder thread: the write of a long report ends with its reader.
Flush ==
    /\ child = "flushing"
    /\ \/ pipe = "empty" /\ pipe' = (IF large THEN "part" ELSE "whole")
       \/ pipe = "part" /\ thread = "recv" /\ pipe' = "whole"
    /\ UNCHANGED <<kind, callVars, threadVars, child, report, large, signals,
                   ffmpeg, eventVars>>

\* A process exits when its feeder threads are done.
Exit ==
    /\ child = "flushing" /\ pipe \in {"whole", "read"}
    /\ child' = "dead"
    /\ UNCHANGED <<kind, callVars, threadVars, report, large, pipe, signals,
                   ffmpeg, eventVars>>

\* A signal of the parent takes effect, SIGTERM perhaps never; ffmpeg goes on.
Obey ==
    /\ Alive /\ signals # {}
    /\ child' = "dead"
    /\ UNCHANGED <<kind, callVars, threadVars, report, large, pipe, signals,
                   ffmpeg, eventVars>>

\* The kernel ends the child (out of memory) or the interpreter crashes.
Die ==
    /\ Alive
    /\ child' = "dead"
    /\ UNCHANGED <<kind, callVars, threadVars, report, large, pipe, signals,
                   ffmpeg, eventVars>>

-----------------------------------------------------------------------------
(* The event loop: the coroutine and the forwarding task.                  *)

\* run_in_executor returns or raises; a download passes its finally.
FutureDone ==
    /\ caller = "await" /\ thread = "done"
    /\ caller' = (IF kind = "preview" THEN "returned" ELSE "finally")
    /\ out' = Outcome(result)
    /\ UNCHANGED <<kind, cancels, age, threadVars, childVars, eventVars>>

\* A bug: the forwarding task is not awaited.
DrainAbandoned ==
    /\ caller = "finally"
    /\ caller' = "returned"
    /\ UNCHANGED <<kind, out, cancels, age, threadVars, childVars, eventVars>>

\* await drain_task: what the callback raised replaces the outcome.
DrainAwaited ==
    /\ caller = "finally" /\ drain \in {"ended", "raised"}
    /\ caller' = "returned"
    /\ out' = (IF drain = "raised" THEN "callback_error" ELSE out)
    /\ UNCHANGED <<kind, cancels, age, threadVars, childVars, eventVars>>

\* _drain_bridge takes one item; the callback may raise.
DrainItem ==
    /\ drain = "running" /\ bridge # <<>>
    /\ bridge' = Tail(bridge)
    /\ IF Head(bridge) = Stop
       THEN drain' = "ended" /\ UNCHANGED shown
       ELSE /\ shown' = Head(bridge)
            /\ drain' \in {"running", "raised"}
    /\ UNCHANGED <<kind, callVars, threadVars, childVars, emitted, progress,
                   sunk>>

\* job_timeout or a shutdown cancels a download.  The pool drops work that no
\* thread has begun; a running thread goes on.  In the finally the
\* cancellation reaches the forwarding task.
Cancel(why) ==
    /\ kind = "download" /\ caller # "returned" /\ why \notin cancels
    /\ why = "job_timeout" => age = JobTimeout
    /\ cancels' = cancels \union {why}
    /\ out' = "cancelled"
    /\ IF caller = "await"
       THEN /\ caller' = "finally"
            /\ thread' = (IF thread = "queued" THEN "dropped" ELSE thread)
            /\ UNCHANGED drain
       ELSE /\ caller' = "returned"
            /\ drain' = (IF drain = "running" THEN "cancelled" ELSE drain)
            /\ UNCHANGED thread
    /\ UNCHANGED <<kind, age, result, waited, ran, due, childVars, emitted,
                   progress, sunk, bridge, shown>>

-----------------------------------------------------------------------------
(* Time.                                                                   *)

\* A report the thread waits for and of which the rest will never come.
Torn == pipe = "part" /\ child = "dead" /\ thread \in {"recv", "collect"}

\* The longest a thread can be busy with its child.
MaxRun == IF kind = "preview" THEN Timeout + 2 * Grace ELSE Timeout + Grace

Running == thread \notin {"queued", "dropped", "done"}

\* No time passes while the thread or the loop has something to do at once,
\* nor past a timer, nor past a signal that cannot be ignored.
Tick ==
    /\ \/ thread = "queued" /\ age < PoolWait
       \/ thread = "dropped"
       \/ thread = "done" /\ caller # "await"
       \/ thread \in {"loop", "get", "check"} /\ ~Expired
       \/ thread \in {"join", "grace", "stopping"} /\ Alive /\ ~Expired
       \/ Torn
    /\ caller # "returned" \/ Running
    /\ age < JobTimeout \/ "job_timeout" \in cancels
    /\ age' = (IF kind = "download" /\ age < JobTimeout THEN age + 1 ELSE age)
    /\ ran' = (IF Running /\ ran <= MaxRun THEN ran + 1 ELSE ran)
    /\ UNCHANGED <<kind, caller, out, cancels, thread, result, waited, due,
                   childVars, eventVars>>

Next ==
    \/ StartProcess \/ StartRaises
    \/ PollDownload \/ GetEvent \/ GetNothing \/ LoopOver \/ GraceOver
    \/ CollectResult
    \/ PollPreview \/ GetReport \/ ReceiveRest \/ CheckAlive \/ JoinPreview
    \/ StopPreview
    \/ Emit \/ RunFfmpeg \/ FfmpegEnds \/ Report \/ Flush \/ Exit \/ Obey \/ Die
    \/ FutureDone \/ DrainAwaited \/ DrainItem
    \/ \E why \in {"shutdown", "job_timeout"} : Cancel(why)
    \/ Tick

Spec == Init /\ [][Next]_vars

ThreadStep ==
    \/ PollDownload \/ GetEvent \/ GetNothing \/ LoopOver \/ GraceOver
    \/ CollectResult
    \/ PollPreview \/ GetReport \/ ReceiveRest \/ CheckAlive \/ JoinPreview
    \/ StopPreview

\* The pool gets to the call, the thread and the loop go on, the clock runs,
\* arq's timeout is kept, a write goes on while it is read, SIGKILL kills.
\* The child need not do anything.
FairSpec ==
    /\ Spec
    /\ WF_vars(StartProcess \/ StartRaises)
    /\ WF_vars(ThreadStep)
    /\ WF_vars(FutureDone \/ DrainAwaited)
    /\ WF_vars(DrainItem)
    /\ WF_vars(Tick)
    /\ WF_vars(Cancel("job_timeout"))
    /\ WF_vars(Flush /\ thread = "recv")
    /\ WF_vars(Obey /\ "kill" \in signals)

-----------------------------------------------------------------------------
CallType ==
    /\ caller \in {"await", "finally", "returned"}
    /\ out \in {"none", "ok", "too_large", "timeout", "classified",
                "extraction", "os_error", "cancelled", "callback_error"}
    /\ cancels \subseteq {"shutdown", "job_timeout"}
    /\ age \in 0 .. JobTimeout

ThreadType ==
    /\ thread \in {"queued", "dropped", "loop", "get", "over", "grace",
                   "collect", "check", "last_get", "recv", "join", "stopping",
                   "killing", "done"}
    /\ result \in Statuses("preview") \union Statuses("download")
                  \union {"none", "os_error", "no_result", "timeout"}
    /\ waited \in 0 .. JobTimeout
    /\ ran \in 0 .. (MaxRun + 1)
    /\ due \in Nat

ChildType ==
    /\ child \in {"none", "working", "flushing", "dead"}
    /\ report \in Statuses("preview") \union Statuses("download")
                  \union {"none"}
    /\ large \in BOOLEAN
    /\ pipe \in {"empty", "part", "whole", "read"}
    /\ signals \subseteq {"term", "kill"}
    /\ ffmpeg \in BOOLEAN

EventType ==
    /\ emitted \in 0 .. MaxEvents
    /\ progress \in Seq(1 .. MaxEvents)
    /\ sunk \in 0 .. MaxEvents
    /\ bridge \in Seq(0 .. MaxEvents)
    /\ drain \in {"none", "running", "ended", "raised", "cancelled"}
    /\ shown \in 0 .. MaxEvents

\* The variables have their types: no age or clock runs past its bound.
TypeOK ==
    /\ kind \in {"preview", "download"}
    /\ CallType /\ ThreadType /\ ChildType /\ EventType

\* The outcome is what the child reported.  A report is called missing only
\* if the child died before all of it was in the pipe, and a timeout is
\* claimed only after the whole timeout (both except chains, and the second
\* get of _collect_preview_result).
OutcomeIsTheChilds ==
    /\ result \in Statuses(kind) => result = report
    /\ result = "no_result" => child = "dead" /\ pipe = "empty"
    /\ result = "timeout" => ran >= Timeout
    /\ out \notin {"none", "cancelled", "callback_error"} => out = Outcome(result)

\* No preview leaves its child behind, not even one that ignores SIGTERM, and
\* a download that ends by itself does not either (_stop_process, the join
\* after the loop).
ChildGone ==
    caller = "returned" =>
        /\ kind = "preview" => ~Alive
        /\ out \in {"ok", "too_large", "classified", "extraction"} => ~Alive
        /\ out = "ok" => ~ffmpeg

\* A download that returns by itself has shown every event its thread took
\* from progress_queue, in order, and STOP came after the last (_drain_bridge).
\* The events it has not shown are those left in progress_queue: the loop ends
\* with the child, whatever the queue still holds (_wait_and_drain_progress).
TakenEventsShown ==
    caller = "returned" /\ out \notin {"cancelled", "callback_error"} =>
        /\ shown = sunk /\ bridge = <<>>
        /\ emitted - shown = Len(progress)

\* The callback is not called once download() is over, and before that it is
\* called for one event after the other (the STOP marker travels with them).
NoEventAfterReturn ==
    [][shown' # shown => caller # "returned" /\ shown' = shown + 1]_vars

\* The executor gets its thread back in bounded time, unless the child died in
\* the middle of a report (the deadline, join(5), terminate, join(5), kill).
ThreadBackInTime == Running /\ ran > MaxRun => Torn

\* The downloader's own timeout fires before arq's, unless the call waited for
\* a thread for more than the margin between them (worker_settings.py, the
\* comment on JOB_TIMEOUT_SECONDS).
JobTimeoutIsLastResort ==
    age = JobTimeout /\ caller = "await" =>
        Torn \/ waited + MaxRun >= JobTimeout

\* Every call comes back: a child that hangs, that cannot get rid of a long
\* report, that ignores SIGTERM or that dies makes no difference.  Excepted is
\* the preview whose child died in the middle of a report.
EveryCallReturns == <>(caller = "returned" \/ (kind = "preview" /\ Torn))

StopComes == drain = "running" => \E i \in DOMAIN bridge : bridge[i] = Stop

\* A thread that has started its child does not end without STOP, however the
\* wait ends (the finally of _run_download_in_process).
StopBeforeEnd ==
    kind = "download" /\ thread = "done" /\ result # "os_error" => StopComes

\* Where the thread is and what its child can be doing then.
ThreadInv ==
    /\ kind = "preview" =>
           thread \notin {"over", "grace", "collect", "dropped"}
    /\ kind = "download" =>
           thread \notin {"check", "last_get", "recv", "join", "stopping",
                          "killing"}
    /\ Running => child # "none"
    /\ thread \in {"queued", "dropped"} => child = "none"
    /\ thread \in {"collect", "last_get"} => child = "dead"
    /\ thread = "done" /\ Alive => kind = "download" /\ result = "timeout"

\* What the child has reported, how far the report is, and what the thread has
\* made of it.
ReportInv ==
    /\ report \in Statuses(kind) \union {"none"}
    /\ child \in {"none", "working"} => report = "none"
    /\ child = "flushing" => report # "none"
    /\ report = "none" => pipe = "empty"
    /\ report # "none" => ~ffmpeg
    /\ pipe = "read" => result = report
    /\ result \in Statuses(kind) => pipe = "read"
    /\ thread \in {"queued", "dropped", "loop", "get", "over", "grace",
                   "collect", "check", "last_get", "recv"} => result = "none"
    /\ thread = "join" => result \in Statuses(kind)
    /\ thread \in {"stopping", "killing"} =>
           result \in Statuses(kind) \union {"none"}
    /\ thread = "done" => result # "none"
    /\ result = "no_result" => child = "dead" /\ pipe = "empty"

\* Where the thread's clock stands at each of its statements.
ClockInv ==
    /\ thread \in {"queued", "dropped"} => ran = 0
    /\ thread \in {"loop", "get", "check"} => due = Timeout
    /\ thread \in {"loop", "get", "check", "over", "last_get"} => ran <= Timeout
    /\ thread = "over" /\ Alive => ran = Timeout
    /\ thread \in {"recv", "collect"} => Torn \/ ran <= Timeout
    /\ thread = "grace" => ran <= due /\ due = Timeout + Grace /\ ran >= Timeout
    /\ thread = "join" => ran <= due /\ due <= Timeout + Grace
    /\ thread = "stopping" => ran <= due /\ due <= Timeout + 2 * Grace
    /\ thread = "killing" => ran <= Timeout + 2 * Grace
    /\ thread \in {"stopping", "killing"} /\ result = "none" => ran >= Timeout
    /\ thread = "done" => ran <= MaxRun
    /\ result = "timeout" => ran >= Timeout

\* arq's clock against the thread's, while the coroutine waits for the thread.
AgeInv ==
    /\ kind = "preview" => age = 0
    /\ thread = "queued" => age <= PoolWait
    /\ thread = "dropped" => caller # "await"
    /\ kind = "download" /\ caller = "await" /\ thread # "queued" =>
           Torn \/ age = waited + ran

\* What the coroutine knows of the thread and of the forwarding task.
CallerInv ==
    /\ caller = "await" <=> out = "none"
    /\ caller = "await" => cancels = {}
    /\ kind = "preview" =>
           caller # "finally" /\ out \notin {"cancelled", "callback_error"}
    /\ out \notin {"none", "cancelled", "callback_error"} =>
           thread = "done" /\ out = Outcome(result)
    /\ caller = "returned" => drain # "running"
    /\ kind = "download" /\ caller = "returned" =>
           drain = "ended" \/ out \in {"cancelled", "callback_error"}

\* The thread of a download has passed its finally.
Stopped ==
    /\ kind = "download"
    /\ thread = "collect" \/ (thread = "done" /\ result # "os_error")

\* The events under way, in order and without a gap: those the callback has
\* seen, those in the bridge, those in the pipe.  STOP is the last item.
EventInv ==
    /\ drain = "none" <=> kind = "preview"
    /\ kind = "preview" => emitted = 0
    /\ sunk + Len(progress) = emitted
    /\ \A i \in 1 .. Len(progress) : progress[i] = sunk + i
    /\ shown <= sunk
    /\ IF drain = "ended"
       THEN Stopped /\ shown = sunk /\ bridge = <<>>
       ELSE /\ Len(bridge) = sunk - shown + (IF Stopped THEN 1 ELSE 0)
            /\ \A i \in 1 .. Len(bridge) :
                 bridge[i] = IF i <= sunk - shown THEN shown + i ELSE Stop

\* The types and the parts above are inductive together.
PartsInv ==
    /\ TypeOK /\ ThreadInv /\ ReportInv /\ ClockInv /\ AgeInv /\ CallerInv
    /\ EventInv

\* What holds between the child, the thread, the bridge and the coroutine in
\* every state, so that no started download ends without STOP, and one that
\* returns by itself has shown every event its thread took from the child.
ChildInv == PartsInv /\ StopBeforeEnd /\ TakenEventsShown

\* Both clocks of a download, the thread's and arq's: the thread comes back in
\* time, and job_timeout is the last resort.
TimeoutsHold == ThreadBackInTime /\ JobTimeoutIsLastResort

\* "by the time run_in_executor's await above resolves, drain_task is already
\* guaranteed to run to completion on its own" (download()'s finally).
DrainEndsByItself == caller = "finally" /\ cancels = {} => StopComes
=============================================================================
