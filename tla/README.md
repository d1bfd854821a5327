# Universal Media Downloader: TLA+ specifications

A user sends a link to a Telegram bot, the bot saves a download request and
queues a job, an arq worker downloads the media with yt-dlp in a child process
and delivers the file, and a cron job of the worker fails the requests nobody
works on any more. This directory models the parts of that system whose
correctness depends on what happens between two steps: on interleavings, on
crashes, on timeouts, on lost replies.

Source paths below are relative to `src/src/`.

## 1. Inventory

| Part | State | Operations | Talks to | What is hard | What makes it correct |
|---|---|---|---|---|---|
| Request use case, `application/use_cases/request_download.py` | row, queue | save, enqueue, undo | database, Redis | dying between the two, an enqueue of unknown outcome | a saved request has a job or is failed |
| Download job, `application/use_cases/process_download.py` | row status, temp directory | load, claim, guard, download, upload, close, tell | database, Redis, disk, Telegram | reruns after a crash, cancellation at `job_timeout`, every call may fail | one owner, one outcome, the user hears once |
| Reaper, `application/use_cases/reap_stale_requests.py` | batch | fail stale rows, notify | database, Telegram | races with a live job, stops in mid-batch | never takes a live request, leaves none behind |
| Repository, `infrastructure/database/repositories/` | status, updated_at | create, update, mark_failed_by_id, claim_for_processing, fail_stale | PostgreSQL | two writers do not look at the status they overwrite | terminal rows stay |
| Queue and worker, `infrastructure/queue/` | queue, in-progress key, tries | enqueue, run, cancel, rerun | Redis | the key's expiry against a slow cancellation | no two attempts at once |
| Rate limiter, `infrastructure/rate_limit/` | ZSET per user | acquire | Redis | check and record are two transactions | bounded admissions, earned denials |
| Downloader, `infrastructure/downloader/ytdlp_downloader.py` | child process, queues, bridge task | preview, download | child, executor | timeouts, full pipes, the forwarding task | every call returns, progress in order |
| Storage, `infrastructure/storage/local_storage.py` | directories | make, release, cleanup, free space | disk | cleanup against a live job | files live as long as their job |
| Progress card, `presentation/telegram/progress_listener.py`, `infrastructure/progress/` | throttle state, card | publish, throttle, edit | Redis pub/sub, Telegram | lost events, two editors of one card | the final state stays |
| Preview flow, `presentation/telegram/handlers/`, `infrastructure/preview_context/` | tokens, FSM state | preview, pick, confirm, cancel | Redis, use cases | double taps, expiry | a token is spent once |
| URL validation, format policy, spec, callback data, size check, media facts, error classifier, file name | none | pure functions, applied one after the other to one link | each other, across the database and a process boundary | suffixes, missing and zero values, rounding, byte budgets, precedence | what arrives is what was asked for, or an error that fits |
| Users, language, i18n | user row, override in Redis | register, resolve a locale, choose | database, Redis | two first messages, two stores, choices that overlap | one row, a choice that lasts, stores that agree |
| Ping, admin, logging, Sentry, settings, wiring | | diagnostics, start-up | | | not modelled |

`PROJECT.json` lists them with their status, and the hazards line by line.

## 2. Modules

| Module | Kind | Models |
|---|---|---|
| `DownloadLifecycle` | specification | bot, queue, worker, job, reaper and clock around one `download_requests` row per request |
| `RequestContract` | abstract specification | what the user and the operator see of a request |
| `MCDownloadLifecycle` | TLC instance | model values for the runs |
| `DownloadLifecycleProofs` | proofs | the inductive invariants, eight properties, and that `DownloadLifecycle` implements `RequestContract` |
| `RateLimiter` | specification | `RedisRateLimiter.acquire` for one key |
| `MCRateLimiter` | TLC instance | model values and symmetry |
| `RateLimiterProofs` | proofs | the bound on admissions, denials and hints |
| `FormatPolicy` | operators | format policy, specs, callback data, keyboards |
| `PreviewFlow` | specification | handlers, tokens and cards from a link to a saved request |
| `MCPreviewFlow` | TLC instance | extractor keys, model values and symmetry |
| `PreviewFlowProofs` | proofs | the inductive invariant and four properties |
| `ProgressCard` | specification | progress events, throttle, listener and the card they edit |
| `MCProgressCard` | TLC instance | model values |
| `ProgressCardProofs` | proofs | the inductive invariant, the listener keeps final cards |
| `ChildProcess` | specification | one call of `YtDlpDownloader`: coroutine, executor thread, child, pipes, bridge (run as it is) |
| `ChildProcessProofs` | proofs | the inductive invariant and four properties |
| `Storage` | specification | request directories, their jobs and the cleanup cron |
| `MCStorage` | TLC instance | model values |
| `StorageProofs` | proofs | the inductive invariant, the cron spares live files |
| `Users` | specification | registration and language of one user, by overlapping handlers |
| `MCUsers` | TLC instance | tags, model values and symmetry |
| `UsersProofs` | proofs | the inductive invariant, the stores agree |
| `LinkRules` | operators | URL validation, error keys, error classifier |
| `MediaRules` | operators | short side, stored specs, yt-dlp options, size estimate, media facts, delivery method, file name |
| `MediaPath` | specification | the chain of decisions about one link, built on the two |
| `MCMediaPath` | TLC instance | hosts, links, formats and titles |
| `MediaPathProofs` | proofs | lemmas about the rules, the inductive invariant and six properties |

How they fit together: `PreviewFlow` ends where a request is saved,
`DownloadLifecycle` begins there. `ChildProcess` is the inside of
`DownloadLifecycle`'s `StartDownload` ... `DownloadReturns`, `Storage` that of
its directory seen by the cron, `ProgressCard` what becomes of the phases it
publishes, `RateLimiter` the inside of `PreviewFlow`'s `Admit` and `TurnDown`.
`MediaPath` is the data that runs through all of them, without their timing.

### DownloadLifecycle

One action is one repository call, one publish, one Telegram call or one step
of arq, because each repository call commits on its own
(`transactional.py`, `composition.py`) and everything else is a network round
trip: any two of them interleave.

*Row.* `status` and `rowAge` are the columns `status` and `now - updated_at`.
`update` and `mark_failed_by_id` are `Write`: they overwrite whatever is there.
`claim_for_processing` and `fail_stale` look first. Rows are never deleted.

*Bot.* `bot` is the position in `RequestDownloadUseCase.execute`. The enqueue
succeeds, raises with nothing queued (`"lost"`), or raises with the job queued
because the reply was lost (`"unsure"`). `BotDies` ends the use case anywhere
after the row exists; a database failure there has the same effect.

*arq* (external, from how the worker is configured). `job`, `tries` and `ttl`
are the queue entry, `job_try` and the in-progress key, which arq keeps for
`job_timeout` plus 10 seconds (`Slack`). A job that returns or raises leaves the
queue; only a job cancelled by a shutdown, or lost in a crash, runs again, up to
`max_tries`.

*Attempt.* `pc[r][k]` is the statement at which attempt `k` of request `r`
stands. `Finally` is the `finally: release` of `execute`. A cancelled download
is `"draining"` until its thread ends, because `YtDlpDownloader.download` awaits
the forwarding task in its own `finally`; `CancelLag` bounds that time.
`"poisoned"` is a download whose forwarding task has died of a failed publish.
`Escape` is every exception `execute` does not catch.

*Upload.* `SendFile` is the hand-over: Telegram's server has the whole file, the
attempt waits for the reply (`"sent"`) and `upload[r][k]` is `"flying"`. `Arrive`
is the server's work, at any time and without fairness: it does not ask what
became of its client. `SendFileReturns` needs it; `SendFileRaises`, a
cancellation and a crash do not and leave the upload as it is, so that a file may
arrive after `_fail` has told the user of a failure, as `config/settings.py:119`
describes, or after a rerun has sent another, or never.

*Reaper.* `FailStale` is the transaction; `reaped` are the rows still to be
notified, lost when the worker stops. The oldest-first batch is any batch of
the right size among the stale rows: their ages are saturated, so any order of
them is possible. `SKIP LOCKED` only postpones a row that a claim holds, and the
claim is one atomic action.

*Worker process.* `Crash` loses the attempts and keeps Redis, rows and files.
`Shutdown` is SIGTERM: attempts are cancelled, unwind, and are marked for a
rerun; a `Crash` may cut this short.

*Time* passes in `Tick`, for all ages at once, and not past a timer that is due.

*Abstracted.* Users, URLs, formats, texts, sizes and media types. A request is
`Unreadable` when its stored spec cannot be parsed and an `Orphan` when a lookup
may not find its user. Of the temp directory only "absent, empty, holds a file" remains.

### RequestContract

Status, the requests whose file was handed to Telegram, those whose file has
arrived, and those reported as failed. A status only moves forward, only what was
handed over arrives, DONE requires the file, no upload begins once a failure was
reported, and only FAILED requests are reported. A file that was handed over
before may arrive after the report: the contract promises no more than the code
does. The mapping (`Sent`, `Received`, `Told`) reads `upload` and `notices`.

### RateLimiter

Each call reads the clock once (`Begin`), prunes and counts in one transaction
(`Count`), and then records in a second one (`Record`) or computes the hint
(`Deny`). A member of the ZSET is the call that added it, since its name is a
fresh uuid, and its score is the time the call read. `Raise` is a Redis error,
with the record made or not. The key goes with its TTL or its last member.
`Second` is the number of ticks in a second, so that the hint's rounding is
exercised between whole seconds.

### FormatPolicy and PreviewFlow

`FormatPolicy` holds the pure rules: `IsAllowed`, `OfferedChoices`, `TiersFor`,
`DefaultVideoSpec`, the codes of the confirm buttons and their parser, and the
two keyboards as the sets of what their buttons mean. An extractor key is
compared in lower case (`Lower`), a short side that was not observed is 0.

`PreviewFlow` extends it. An action is one await of a handler: a Redis call, the
use case, a Telegram call. aiogram runs each update in its own task, so `Overlap`
handlers are in flight at once. `token` and `context` are the entry of
`RedisPreviewContextStore`; a token is a fresh uuid, hence named by its card.
`PopToken` is GETDEL, `GetToken` GET, `DeleteToken` DEL, `Expire` the TTL. An
`OldCard` has a value that `_decode` cannot read and buttons with the codes of
earlier builds. The card is its text, as a sequence of notes, and its buttons;
`edit_text` without a markup drops them (`WriteText`). Confirm and cancel append
to the text the card had *when it was tapped* (`seen`), which is what
`callback.message.text` is. `drawn` and `boot` tell which process drew the
keyboard, since a restart may bring another policy. `Execute` is the use case as
the handlers see it: refused, saved and queued, or saved and not queued; its
inside is `DownloadLifecycle`. The limiter's verdict (`Admit`, `TurnDown`) is
either one; its inside is `RateLimiter`.

*Abstracted.* URLs, texts, users and the FSM state that routes the next message
to the preview. An update is handled once: Telegram redelivers one only when the
bot dies before it asks for the next batch.

### ProgressCard

`job` is the last phase published, `channel` what the subscription holds,
`throttle` the state of `ProgressThrottler`, with the time since the last
emitted event up to `MinInterval`. `PublishPhase` ignores a failure, `Forward`
(`_on_progress`) does not: it leaves the job `"poisoned"`, which ends without a
further event. `HandleMessage` is one turn of the listener's loop, edit
included, because the loop awaits it. `EditMessage` has the three outcomes of
`_edit_message`: edited, refused with `TelegramBadRequest`, or raising, which
ends the task; `Troubled` are the requests whose card may meet the last two.
`HandlerEdits` is the "started" edit of `handle_confirm_download`, made after
the enqueue. A lost attempt is run again or is over without an event (the
reaper publishes none).

*Abstracted.* Payload fields but the phase and the percentage, malformed
payloads, texts and locales, and requests with an unreadable row, which may
publish FAILED once per rerun.

### ChildProcess

`kind` picks `get_preview` or `download`. `caller` is the coroutine, `thread`
the executor thread's statement, `child` the process. The child's report goes
from `report` through the queue's feeder thread into `pipe`: an error text may be
`large`, and then the write ends only with its reader (`Flush`), and the process
exits only after it (`Exit`). This is why `_collect_preview_result` reads before
it joins, and why a download, whose thread reads after the child is gone, ends by
its timeout instead. `ran` and `due` are the thread's clock and the deadline of
its present wait; one tick is any time shorter than the waits, so the half-second
polls are steps of no duration. SIGTERM may be ignored for ever, SIGKILL not.
`Die` is the kernel or a crash, at any point; `RunFfmpeg` a grandchild, which
survives a signal. Progress runs over `progress`, `sunk`, `bridge` and `shown`,
STOP being 0. `Cancel` is `job_timeout` or a shutdown: work that no thread has
begun is dropped from the pool, begun work goes on, and a second cancellation
reaches the forwarding task. `PoolWait` bounds how long the executor's other work
keeps the call waiting.

*Abstracted.* Contents of reports but their status; the exit code; `ctx`
(spawn or forkserver).

### Storage

Per request: the `job` and the age of its present attempt (`held`), whether the
directory is there, whether this attempt `made` it, whether it holds a file of
this attempt (`fresh`) and how long it has been `quiet`, which is what
`_last_activity` measures. `temp_dir_for_request` does not touch a directory that
exists. An attempt starts (`StartJob`) and either makes its directory or returns
before its `try` (`SkipJob`): the record is unreadable or gone, its user is gone, or
the claim is refused. Then it releases nothing. Past the `try` every end goes
through `Release`. The cron lists the entries and takes its time (`StartScan`), looks at
each (`Look`) and removes what it has found old in a later step (`Remove`), while
jobs go on in other threads. A removal may fail, in part or whole. `writer` is a
child that survived its job (`ChildProcess` shows how) and may put the directory
back. A crash takes jobs, children and the pass with it and leaves the files.

### Users

One user, several handlers at once. The middleware resolves a locale when the
update arrives (`Receive`, with the override, Telegram's tag and the default in
that order), `GetUser` and `CreateUser` are the two transactions of a
registration, `SetLocale` and `SetLanguage` the two writes of a choice. `Break`
ends a handler at any await, with its write made or not. `overlap` and `split`
only record which choices the promise of `StoresAgree` does not cover.

### LinkRules, MediaRules and MediaPath

A host is a sequence of labels, compared as the code compares strings: lowered,
without dots behind (or, for a list entry, in front), equal or ending in a dot and
the domain. yt-dlp's message is the set of wordings of `_SIGNATURES` it contains.
Absent values are `Nothing` and are kept apart from 0, since `or` treats them
alike and `is None` does not. Durations are counted in half seconds and rounded as
`round` does. A title is a sequence of characters by class and byte length; the
name on disk, which serves when a title leaves nothing, is one short yt-dlp id.

`MediaPath` runs a link through these rules in the order of the code: admitted
(`Submit`), previewed, confirmed, stored, perhaps changed by another build
(`Corrupt`), read (`LoadRequest`), weighed, downloaded, found and measured
(`Report`), delivered (`SendFile`), each step with every input of a small
instance. The invariants compare what comes out with definitions that are not the
code's: domains by labels from the right, tiers by the formats that exist, facts
by the file, errors by the message, the size estimate (from `listing`, what yt-dlp
says of the parts it would fetch) with the bytes of all the parts, counted one by
one.

*Abstracted.* The substrings of each class of wording, the format selector beyond
its ceiling, paths beyond "the final one or not", captions, a name on disk longer
than the budget, and titles with a lone surrogate (section 4).

## 3. Runs

| Run | Result | Shows |
|---|---|---|
| `lifecycle` | pass | type and inductive invariants, exclusive claim, one attempt at a time, duplicates only after a stop, one failure text, final statuses, no upload begun after a failure text, final card phases; every request settles and every job leaves the queue |
| `contract` | pass | `RequestContract` is implemented, late uploads included, and an enqueue error is final, when no enqueue is in doubt |
| `publish_failure` | violation | a failed progress publish discards a downloaded file |
| `limiter` | pass | admissions bounded, denials earned, hints neither too short for what the denial counted nor a second too long, with overlapping calls |
| `preview_flow` | pass | a card becomes one request or none, a cancel is final, buttons and use case agree, only permitted requests |
| `progress` | pass | nothing follows a terminal event, the listener keeps final cards, throttle state is released |
| `listener_ends` | violation | an edit that raises costs the other cards their final state |
| `child` | pass | outcomes are the child's, previews leave no child, every event the thread took is shown, in order and before the call is over, threads come back in time, `job_timeout` is the last resort, every call returns |
| `drain_hangs` | violation | a process that cannot be started leaves `download()` waiting for a task that nothing ends |
| `storage` | pass | the cron takes nothing from an attempt that made its directory, a job that reached its `try` releases however it ends, leftovers go |
| `users` | pass | one row per user, and after a clean choice the stores agree, whatever `/start`, downloads and evictions do |
| `media` | pass | admission by domain, cards that keep their promise, the picked spec is fetched, delivery as asked, "too large" said exactly of what is known to be, true facts, fitting errors, safe names |

Several properties are conjunctions of named parts, each stated where it is
defined: `EverythingSettles` (`EventuallySettled`, `QueueDrains`), `ChildInv`
(`PartsInv`, `StopBeforeEnd`, `TakenEventsShown`), `TimeoutsHold`
(`ThreadBackInTime`, `JobTimeoutIsLastResort`), `UsersInv` (with
`OneRowPerUser`), `MediaInv` (with `PickedIsFetched`), `ProgressInv` (with
`ThrottleStateReleased`), `DeliveredAsAsked` (with `FactsAreTheFiles`),
`StorageInv` (with `ReleasedAtTheEnd`), `Inv` (with `UploadInv`). The other
parts of the invariants are the strengthenings of section 5.

**Bounds.** `lifecycle` has one request, since requests only share the reaper's
batch, the worker and the clock; `contract` has two, one of them
unreadable, and a batch of one, so that a batch leaves a row behind. Two tries and two stops reach the
rerun, the exhausted job and a crash during a shutdown. `JobTimeout` 2,
`Grace` 1, `Slack` 2 and `CancelLag` 1 keep the order that 2100 s, 300 s, 10 s
and a prompt cancellation have (`Slack` > `CancelLag`), and leave time for the
row to be refreshed in mid-attempt; `contract` uses 1, 0, 1, 0.
`rowAge` stops counting one past `StaleAfter`, the only value it is compared
with. The limiter's run has four calls at a limit of two, a window of three
ticks and a clock that runs past two windows. Its clock is bounded and calls do
not repeat, so it ends: deadlock is not checked there. It
is checked in all runs of `DownloadLifecycle`.

`preview_flow` has a new card and one of an older build, and four updates: a
link and three taps, such as two confirms and a cancel, three of them in flight.
The short sides are none, both thresholds and one between them; the two keys
differ in case, and the restart picks any policy. `progress` has one request,
for requests share only the listener's turn; percentages 0, 4 and 9 lie on both
sides of the step of 5, and three events of backlog hold a stream and its end.
`listener_ends` has two requests, the shared task being its point. Updates,
boots and runs are used up, so these runs end: deadlock is not checked.

`child` has a timeout of two ticks, a grace of one and a margin of two before
`job_timeout`, and a pool that may keep the call waiting for longer than the
margin or not at all; two events make an order. `storage` has one request, since
directories are independent and the cron looks at one at a time, three tries and
two crashes (an attempt that loses its files and another after it), one failing
removal and passes of up to one tick. `users` has four handlers: two choices, a
`/start` and a download overlap. `media` has eleven hosts around one allowed domain
and a blocked subdomain, sizes and a limit of two with every mixture of exact,
approximate and missing estimates of up to two parts, formats around the short
sides, and all titles of up to three characters with a budget of three bytes.
Calls, tries, handlers and links are used up, so these runs end: deadlock is not
checked.

**Fairness.** `FairSpec` asks for what the deployment provides: the clock
(`Tick`), arq's polling (`StartJob`, `GiveUp`, `FinishJob`), `asyncio.wait_for`
(`JobTimesOut`), the ends of cancelled work (`DrainEnds`, `Release`,
`ShutdownEnds`), the five-minute cron (`FailStale`) and
`restart: unless-stopped` in `docker-compose.yml` (`Restart`). No step of a
download, an upload, a publish, a message or a bot handler is fair, and neither is
`Arrive`: what Telegram was given may stay with it. The number
of worker stops is bounded (`MaxStops`): a worker that dies for ever settles
nothing. `ProgressCard`'s `FairSpec` asks only that the listener's task, while
it lives and has an event, goes on (`HandleMessage`). `ChildProcess`'s asks that
the pool gets to the call, that thread, loop and clock go on, that arq keeps its
timeout, that a write goes on while it is read and that SIGKILL kills; the child
owes nothing. `Storage`'s asks for the clock, the restart policy, the cron and the
end of cancelled jobs and of orphaned children.

**Assumption to know about.** `OneAttemptAtATime`, `ResentOnlyAfterStop` and
`FinalPhaseIsLast` need `CancelLag < Slack`: a cancelled download thread has to
end within the ten seconds for which arq's key outlives `job_timeout`. The code
does not enforce this: `download_timeout_seconds` starts when the executor
thread does. TLC finds all three violated when it fails; the mutant of `Limit`
is that case. It is a hypothesis of their three theorems and of no other.

## 4. Disagreements found

Checked, each by a run of its own:

1. `process_download.py:51`, "A publish that fails is logged and ignored": true
   of `_publish_phase`, not of `_on_progress`.
2. `progress_listener.py:142`, "Runs forever": any error of an edit but
   `TelegramBadRequest` ends the task, and nobody looks at it again.
3. `ytdlp_downloader.py:1169`, "drain_task is already guaranteed to run to
   completion on its own": not when a queue or the process cannot be created,
   which happens before the `try` that sends STOP. The call hangs until
   `job_timeout`, the error is lost, and the row waits for the reaper.

Observed while modelling; the models contain the behaviour and the properties are
stated so that they except it:

- A file may follow the text that says its delivery failed, or a second copy of
  itself: the client's timeout (`file_upload_timeout_seconds`) does not stop the
  server (`config/settings.py:119-124` reports a case), and the row stays FAILED.
  `NoUploadAfterFailureText` and the contract therefore speak of uploads that
  begin. They count the texts of `_fail`, of the unreadable record and of the
  reaper, not the bot's own reply to a failed enqueue, which is `bot = "raised"`.
- An enqueue whose reply is lost (`"unsure"`) raises `DownloadEnqueueError`
  (`domain/exceptions.py:163`) with the job queued; `update` may then replace
  FAILED by DONE. `EnqueueErrorIsFinal` holds without this fault.
- A request that is skipped because "the user has already been told"
  (`process_download.py:57`) need not be: FAILED is committed before the text is
  sent, by `_fail` and by the reaper, and a stop in between is not made up for.
- A picker or back handler that read the token before it was spent draws its
  keyboard below the failure text (`download_flow.py:424`).
- The handler's "started" edit may come after the final state of the card and
  stay (`progress_listener.py:15`).
- "must fire FIRST" (`worker_settings.py`, `JOB_TIMEOUT_SECONDS`) holds while a
  call waits for its thread no longer than the margin of the two timeouts; the
  downloader's clock starts with the thread (`JobTimeoutIsLastResort`).
- A shutdown that cancels a call still queued in the pool leaves a forwarding
  task without STOP; arq's second cancellation ends it.
- A download's error text that exceeds the pipe (the missing-file diagnostic can)
  keeps the child alive, so the user is told of a timeout and the diagnostic is
  lost. A child that dies in the middle of such a report blocks its reader for
  good (`Torn`).
- The loop that forwards progress ends with the child (`ytdlp_downloader.py:810`)
  and does not look into `progress_queue` again: what is left in it is never shown
  (`TakenEventsShown` counts it). Only the card is the poorer.
- A download child that ignores SIGTERM, and its ffmpeg, survive the timeout
  (`ChildGone`) and may write into the directory after its release.
- A rerun after an outage longer than the cron's threshold works in a directory
  that is old already, and can lose its first files (`made` in `LiveFilesKept`).
- A rerun whose claim is refused returns before its `try`
  (`process_download.py:238`) and leaves what its predecessor left in the directory
  to the cron (`"skipped"` in `ReleasedAtTheEnd`).
- When overlapping calls have put more than the limit into a rate-limit window, the
  hint of a denial speaks of the oldest member only
  (`redis_rate_limiter.py:50`): one who waits that long may be denied again.
  `HintIsHonest` promises room when the window held no more than the limit.
- Overlapping choices of a language leave Redis and PostgreSQL different, against
  `handlers/language.py:21`; a choice before the first row exists in Redis only,
  and a download then creates the row without a language. The second of two first
  messages ends in an `IntegrityError`.
- `urlparse` raises `ValueError` on an unbalanced bracket, which no handler
  catches: the user gets no answer (`"raised"`).
- yt-dlp's "Unsupported URL" quotes the URL, so a word in the link ("geo") can
  decide the class of the error (`Messages`).
- A duration of half a second rounds to 0, which `_positive_int` returns, and the
  player is sent a duration of 0 (`DeliveredAsAsked` asks for `>= 0`).

Read in the code and left out of the models:

- A title with a lone surrogate cannot be encoded
  (`delivery_filename.py:63`, reached from `telegram_notifier.py:73`). The
  `UnicodeEncodeError` is no `NotifierError`, so it leaves `execute` like
  `DownloadLifecycle`'s `Escape`: the row waits for the reaper. And the name on disk
  that stands in for an empty title is not cut to the budget
  (`delivery_filename.py:45`).

The race that `redis_rate_limiter.py:11` accepts, with "one extra event" as its
worst case, is `Concurrency - 1` extra events in general (`AdmittedInWindow`):
one for two overlapping calls, more for a burst.

## 5. Proofs

All proofs are checked by TLAPS for every value of the constants allowed by the
ASSUMEs: `RequestAssumption`, `TimeAssumption`, `BoundAssumption`,
`FaultAssumption` (`DownloadLifecycle`), `LimiterAssumption`, `LowerAssumption`
(`FormatPolicy`), `FlowAssumption`, `ProgressAssumption`, `ProcessAssumption`
(`ChildProcess`), `StorageAssumption`, `EntryAssumption`, `LocaleAssumption`
(`Users`), `LabelAssumption` (`LinkRules`) and `LinkAssumption`,
`DomainAssumption`, `FormatAssumption`, `SizeAssumption` and `NameAssumption`
(`MediaPath`). Two further hypotheses are stated by the theorems that need them:

| Hypothesis | Theorems | Why |
|---|---|---|
| `CancelLag < Slack` | `AttemptsAreSerial`, `CopiesArePaidFor`, `FinalPhase` | see section 3 |
| `"unsure" \notin EnqueueFaults` | `Refinement`, `EnqueueErrorStands` | the first observation of section 4 |

*`DownloadLifecycleProofs`.* None of the properties is inductive. That the
reaper cannot take a live claim needs to know that a claimed row is no older
than its attempt (`ClaimHolds`) and that the attempt is no older than
`JobTimeout` (`LeaseInv`). That a rerun does not start beside a *running*
attempt needs arq's key to last beyond its `job_timeout`
(`age + ttl >= JobTimeout + Slack`). That the user is told once needs to know
that whoever is about to tell is alone: an attempt holding the claim has no
notice behind it and no reaper beside it (`ToldInv`), and whoever skips leaves
the row as it is (`PathInv`). `OriginInv` says what exists when. `CoreInv` is
their conjunction, proved by one lemma per group of actions (`BotInv`,
`ClaimInv`, `ProgressInv`, `AttemptInv`, `StartInv`, `ReapInv`, `TickInv`,
`WorkerInv`); `UploadInv` says that an attempt hands over at most one file and
believes in its delivery only when the user has it, whatever flies besides
(`UploadStep`). `Inv` is the two together, checked by TLC in run `lifecycle`. From
it follow `ClaimIsExclusive`, `ToldOnce`, `Finality` and `NoLateUpload`; the last
two are action properties and look at each step once more (`TerminalStep`,
`HandOverStep`). Nothing follows about when an upload ends.

With `CancelLag < Slack` the lease reaches to the end of the unwinding: whatever
is left of an attempt is the latest try, its job is queued, and age and key
together still exceed `JobTimeout + Slack` (`SoleInv`), so that no rerun starts
beside it. `CopiesInv` counts: tries are paid for by stops, and each try has at
most one upload to arrive. `PhaseInv` says that behind a final
phase the row is closed and no attempt has anything else to publish. `SerialInv`
is their conjunction; from it follow `AttemptsAreSerial`, `CopiesArePaidFor` and
the action property `FinalPhase`.

The refinement: `ContractInv` adds that whoever is about to report a failure has a
FAILED row. With it and `UploadInv` (who writes DONE has a file that arrived) every
step maps to a step of the contract or to a stutter (`StepSimulation`): an arrival
is the contract's `Arrive`, or a stutter when a copy is there already. That an
enqueue error stands needs the same two: without a job no try has an upload.

*`RateLimiterProofs`.* The bound is carried by the union of the ZSET and the
calls about to record: a count that lets a call through has seen fewer than
`Limit` members, and at most `Concurrency` calls are in flight. It speaks of
admissions because no admitted call of the window is ever missing from the ZSET:
a call prunes by a clock that is never ahead, and the TTL outlives the window of
every member (`KeptInv`). A denial is earned because the members that the count
saw are calls that have ended, and an ended call stays one (`EarnedGrows`); that
the counted sets are finite comes from the calls that have begun (`DenialInv`). The
hint is honest because after the wait the oldest member counted is out of the
window (`HintOutlivesOldest`), so that of at most `Limit` members, the number the
code compares with, fewer than `Limit` are left; and because the rounding adds no
more than a second to the time the oldest still had (`HintIsTight`). It needs no
hypothesis.

*`ProgressCardProofs`.* That the listener keeps a final card needs to know that no
event of that request is left for it, and this that nothing is published behind a
terminal event, over losses and reruns (`OrderInv`). It is inductive with the
types and with `ThrottleStateReleased`; the sequence lemmas (`SendShape`,
`HeadEvent`) say what an event added or taken leaves of the order.

*`ChildProcessProofs`.* `PartsInv` ties the thread's statement to the rest, one
part for each partner: what the child can be doing then (`ThreadInv`), how far its
report is (`ReportInv`), where the deadline stands (`ClockInv`), how arq's clock
relates to it (`AgeInv`), what the coroutine knows (`CallerInv`) and which events
are under way, in order and without a gap, STOP last (`EventInv`). From the last
comes `TakenEventsShown`: what was emitted and not shown when a download is over is
what lies in `progress_queue`. Each part is preserved with the help of those before it. `ChildInvariance`, `OutcomeFaithful`,
`ChildIsGone` and `TimeoutsAreKept` follow from it in every state, and
`EventsInTurn` from one more look at the steps that show an event.

*`UsersProofs`.* `StoresAgree` speaks of quiet moments. `ChoiceInv` says what holds
between the two writes of a choice: Redis has that choice or nothing, unless
another overlapped it, and an override without a row is remembered as a split.

*`MediaPathProofs`.* First the rules, without the state machine. Stripping and
suffixes of the code agree with `Within` for sequences of any length
(`DotsInFront`, `DotsBehind`, `SuffixFromTheRight`, `MatchesIsWithin`); the
short side is reached by a format (`ShortSideIsReached`, by way of a
least-number principle for the maximum of a finite set); the classifier is a
chain of precedence (`ClassifiedInOrder`); a spec survives its two columns
(`SpecRoundTrip`); rounding is off by half a unit at most (`FactRounds`,
`FactsAreRounded`); the estimate of up to two requested downloads, video and audio,
is known exactly when every part's is, and then it is the number of the parts'
bytes, counted in a set that knows no sums (`SizesAddUp`, `PartBytes`, `OnePart`,
`TwoParts`, `EstimateIsTheBytes`); a file name is safe for titles of any
length (`FilenameIsSafe`): the fold that cleans a title is shown to exist by
counting the positions it covers (`FoldUnfolds`), a stripped text is a part of
the text (`StripIsAPart`), and a part has no more bytes (`PartIsSmaller`). Then
the path: `StageInv` says what has been decided at each stage, `FileInv` how
file, report and delivery belong together. `MediaInv` is inductive, one lemma
per action. `CardIsKept`, `AskedIsDelivered` and `ErrorsFit` follow from it in
every state; `AdmissionByLabels`, `LimitIsKnown` and `NamesAreSafe` are inductive
beside it or by themselves. Admission is stated with the two cases that only the
general proof needs: a link without any host is refused even if no list excludes
it, and an empty label inside a host counts as a label.

*`PreviewFlowProofs`.* That a card is downloaded once needs to know who may
still decide about it: a handler that has popped the token, or has not saved it
yet, is the only one, the token is not live and there is neither a request nor a
cancel (`SpendInv`). That the handler which opens a card is alone with it
(`CardInv`) keeps a context from changing below the buttons drawn from it.
`DrawInv` says that buttons, and taps on their way, fit the stored context and
that a handler which draws has one. `FlowInv` is their conjunction with
`TypeOK`, checked in run `preview_flow` and proved action by action; from it
follow `FirstTapWins`, `CancelWins` and `ButtonsAgreeWithPolicy`, and with a
second look at the two actions that make requests `RequestsArePermitted`.

*`StorageProofs`.* `LiveFilesKept` is not inductive: that a removal hits no
attempt at work needs to know that the cron has not condemned its directory, and
this that the directory is no older than the attempt (`OwnDirIsYoung`), whose age
`job_timeout` and the cancellation bound (`TypeOK`). A directory may be condemned
*before* an attempt begins; then it is there and the attempt does not make it
(`DoomedIsThere`), and an attempt that has not made it yet has nothing to lose
(`StartsAfresh`). That a directory left by a finished job has a reason
(`ReleasedAtTheEnd`) is part of the same induction: a job that reached its `try`
leaves one only when a removal failed or a child outlived it, and no child outlives
the worker to meet a later attempt (`WriterIsAlone`). The one assumption that matters is `CancelLag <= Grace`: a
cancelled job lets go of its directory within `stale_request_grace_seconds`.

*Only model-checked.* Liveness (`EverythingSettles`, `EveryCallReturns`,
`LeftoversGo`), which is outside this prover; and the three violations.

## 6. Plan

The modules planned at the start are written, and every safety and action property
of the passing runs is a theorem.

Further modelling worth its cost: several calls sharing one executor, from which
`PoolWait` and `CancelLag` would follow instead of being assumed; and the FSM
state that routes the next message to the preview, with redelivered updates.

## 7. Not modelled

Logging, Sentry, settings, wiring and the ping job keep no state the system
depends on. Message texts, captions, keyboards' layout and Fluent files are data.
The menu, help and `/preview` handlers answer with text and change nothing. What
yt-dlp, ffmpeg, arq, Redis and Telegram do inside is external: they are modelled
by the outcomes the code has to expect. Clock steps are not modelled: the code
compares wall-clock times of one database and one process.
