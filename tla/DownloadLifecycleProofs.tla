---------------------- MODULE DownloadLifecycleProofs ----------------------
(***************************************************************************)
(* Proofs about DownloadLifecycle, for every set of requests and every     *)
(* value of the timeouts, the lag, the tries and the faults.               *)
(*                                                                         *)
(* Inv is inductive.  A step of the bot, of an attempt, or of arq, the     *)
(* reaper, the process and the clock preserves it (BotInv, AttemptInv,     *)
(* WorkerInv); the properties follow from it.  The second part needs       *)
(* CancelLag < Slack, the third, the refinement, that no enqueue is in     *)
(* doubt.                                                                  *)
(***************************************************************************)
EXTENDS DownloadLifecycle, FiniteSetTheorems, TLAPS

USE RequestAssumption, TimeAssumption, BoundAssumption, FaultAssumption
USE DEF Status, Active, Terminal, PC, Running, Unclaimed, Working, Closing,
        Cleaning, Phase, rowVars, queueVars, tryVars, userVars, procVars

\* The initial state, before any request is made, satisfies the invariant.
LEMMA InitInv == Init => Inv
  BY DEF Init, Inv, CoreInv, TypeOK, OriginInv, LeaseInv, ClaimHolds, PathInv,
         ToldInv, UploadInv, BeforeUpload, StaleAfter

\* An attempt exists only once the bot has enqueued the request's job.
LEMMA AttemptHasJob ==
    ASSUME CoreInv, NEW r \in Request, NEW k \in Try, pc[r][k] # "none"
    PROVE  job[r] # "none" /\ bot[r] \notin {"idle", "created"}
  BY DEF CoreInv, TypeOK, OriginInv, Try

\* A publish moves the card or is lost; it writes no other phase.
LEMMA PublishType ==
    ASSUME published \in [Request -> Phase], NEW r \in Request,
           NEW phase \in Phase, PublishPhase(r, phase)
    PROVE  published' \in [Request -> Phase]
  BY DEF PublishPhase

-----------------------------------------------------------------------------
\* The bot's steps: it writes a row that has no attempt yet, or, when the
\* enqueue raised, a row it then answers for by being in "raised".
LEMMA BotInv ==
    ASSUME CoreInv, NEW r \in Request, BotStep(r)
    PROVE  CoreInv'
<1> USE DEF CoreInv, TypeOK, OriginInv, LeaseInv, ClaimHolds, PathInv, ToldInv,
            Write
<1>0. job[r] = "none" => \A k \in Try : pc[r][k] = "none"
  BY DEF Try
<1>1. CASE Create(r)
  <2>1. /\ status' = [status EXCEPT ![r] = "pending"]
        /\ rowAge' = [rowAge EXCEPT ![r] = 0]
        /\ bot' = [bot EXCEPT ![r] = "created"]
        /\ UNCHANGED <<job, tries, ttl, pc, age, retry, dir, upload,
                       notices, published, reaped, worker, stops>>
        /\ status[r] = "absent" /\ job[r] = "none"
    BY <1>1 DEF Create
  <2>2. TypeOK'
    BY <2>1 DEF StaleAfter
  <2>3. OriginInv' /\ LeaseInv' /\ PathInv' /\ ToldInv'
    BY <2>1, <1>0
  <2>4. ClaimHolds'
    BY <2>1, <1>0
  <2> QED
    BY <2>2, <2>3, <2>4
<1>2. CASE EnqueueDownload(r)
  BY <1>2, <1>0 DEF EnqueueDownload
<1>3. CASE EnqueueRaises(r)
  <2>1. PICK j \in {"none", "queued"} : job' = [job EXCEPT ![r] = j]
    BY <1>3 DEF EnqueueRaises
  <2> QED
    BY <1>3, <1>0, <2>1 DEF EnqueueRaises
<1>4. CASE EnqueueFailed(r)
  BY <1>4 DEF EnqueueFailed, StaleAfter
<1>5. CASE BotDies(r)
  BY <1>5 DEF BotDies
<1> QED
  BY <1>1, <1>2, <1>3, <1>4, <1>5 DEF BotStep

-----------------------------------------------------------------------------
\* The claim: it takes only an active row, whose user was told nothing, and
\* makes it as young as can be.
LEMMA ClaimInv ==
    ASSUME CoreInv, NEW r \in Request, NEW k \in Try, ClaimForProcessing(r, k)
    PROVE  CoreInv'
<1> USE DEF CoreInv, TypeOK, OriginInv, LeaseInv, ClaimHolds, PathInv, ToldInv
<1>1. CASE status[r] \in Active
  <2>1. /\ status' = [status EXCEPT ![r] = "processing"]
        /\ rowAge' = [rowAge EXCEPT ![r] = 0]
        /\ pc' = [pc EXCEPT ![r][k] = "claimed"]
        /\ UNCHANGED <<bot, job, tries, ttl, age, retry, dir, upload,
                       notices, published, reaped, worker, stops>>
        /\ pc[r][k] = "loaded"
    BY <1>1 DEF ClaimForProcessing, Write, GoTo
  <2>2. TypeOK'
    BY <2>1 DEF StaleAfter
  <2>3. OriginInv' /\ LeaseInv' /\ PathInv'
    BY <1>1, <2>1, AttemptHasJob
  <2>4. ClaimHolds'
    BY <1>1, <2>1
  <2>5. ToldInv'
    BY <1>1, <2>1
  <2> QED
    BY <2>2, <2>3, <2>4, <2>5
<1>2. CASE status[r] \notin Active
  <2>1. /\ pc' = [pc EXCEPT ![r][k] = "ended"]
        /\ UNCHANGED <<status, rowAge, bot, job, tries, ttl, age, retry, dir,
                       upload, notices, published, reaped, worker, stops>>
        /\ pc[r][k] = "loaded"
    BY <1>2 DEF ClaimForProcessing, GoTo
  <2> QED
    BY <2>1
<1> QED
  BY <1>1, <1>2

\* Progress: only the card moves, or the forwarding task dies.
LEMMA ProgressInv ==
    ASSUME CoreInv, NEW r \in Request, NEW k \in Try, OnProgress(r, k)
    PROVE  CoreInv'
<1> USE DEF CoreInv, TypeOK, OriginInv, LeaseInv, ClaimHolds, PathInv, ToldInv,
            OnProgress, GoTo
<1>1. CASE published' = [published EXCEPT ![r] = "downloading"] /\ UNCHANGED pc
  BY <1>1
<1>2. CASE /\ pc[r][k] = "downloading"
           /\ pc' = [pc EXCEPT ![r][k] = "poisoned"]
           /\ UNCHANGED published
  BY <1>2
<1> QED
  BY <1>1, <1>2

\* One step of one attempt at a job.
LEMMA AttemptInv ==
    ASSUME CoreInv, NEW r \in Request, NEW k \in Try, Attempt(r, k)
    PROVE  CoreInv'
<1> USE DEF CoreInv, TypeOK, OriginInv, LeaseInv, ClaimHolds, PathInv, ToldInv,
            GoTo
<1>1. CASE LoadRequest(r, k)
  BY <1>1 DEF LoadRequest
<1>2. CASE MarkCorrupted(r, k)
  BY <1>2, AttemptHasJob DEF MarkCorrupted, Write, StaleAfter
<1>3. CASE ClaimForProcessing(r, k)
  BY <1>3, ClaimInv
<1>4. CASE RefuseLowDisk(r, k)
  BY <1>4 DEF RefuseLowDisk
<1>5. CASE StartDownload(r, k)
  BY <1>5 DEF StartDownload
<1>6. CASE OnProgress(r, k)
  BY <1>6, ProgressInv
<1>7. CASE DownloadReturns(r, k)
  BY <1>7 DEF DownloadReturns
<1>8. CASE DownloadFails(r, k)
  BY <1>8 DEF DownloadFails
<1>9. CASE PublishUploading(r, k)
  <2>1. published' \in [Request -> Phase]
    BY <1>9, PublishType DEF PublishUploading
  <2>2. TypeOK'
    BY <1>9, <2>1 DEF PublishUploading
  <2>3. OriginInv' /\ LeaseInv' /\ ClaimHolds' /\ PathInv' /\ ToldInv'
    BY <1>9 DEF PublishUploading
  <2> QED
    BY <2>2, <2>3
<1>10. CASE SendFile(r, k)
  BY <1>10 DEF SendFile
<1>11. CASE SendFileReturns(r, k) \/ SendFileRaises(r, k)
  <2>1. PICK p \in {"delivered", "failing"} : pc' = [pc EXCEPT ![r][k] = p]
    BY <1>11 DEF SendFileReturns, SendFileRaises
  <2>2. pc[r][k] \in {"uploading", "sent"}
    BY <1>11 DEF SendFileReturns, SendFileRaises
  <2>3. UNCHANGED <<status, rowAge, bot, job, tries, ttl, age, retry, dir,
                    upload, notices, published, reaped, worker, stops>>
    BY <1>11 DEF SendFileReturns, SendFileRaises
  <2> QED
    BY <2>1, <2>2, <2>3
<1>12. CASE UpdateDone(r, k)
  BY <1>12, AttemptHasJob DEF UpdateDone, Write, StaleAfter
<1>13. CASE PublishDone(r, k)
  <2>1. published' \in [Request -> Phase]
    BY <1>13, PublishType DEF PublishDone
  <2>2. TypeOK'
    BY <1>13, <2>1 DEF PublishDone
  <2>3. OriginInv' /\ LeaseInv' /\ ClaimHolds' /\ PathInv' /\ ToldInv'
    BY <1>13 DEF PublishDone
  <2> QED
    BY <2>2, <2>3
<1>14. CASE UpdateFailed(r, k)
  BY <1>14, AttemptHasJob DEF UpdateFailed, Write, StaleAfter
<1>15. CASE PublishFailed(r, k)
  <2>1. published' \in [Request -> Phase]
    BY <1>15, PublishType DEF PublishFailed
  <2>2. TypeOK'
    BY <1>15, <2>1 DEF PublishFailed
  <2>3. OriginInv' /\ LeaseInv' /\ ClaimHolds' /\ PathInv' /\ ToldInv'
    BY <1>15 DEF PublishFailed
  <2> QED
    BY <2>2, <2>3
<1>16. CASE SendText(r, k)
  BY <1>16 DEF SendText, Finally
<1>17. CASE Escape(r, k)
  BY <1>17 DEF Escape, Fallible, Finally
<1>18. CASE JobTimesOut(r, k)
  BY <1>18 DEF JobTimesOut, Cancelled, Finally
<1>19. CASE DrainEnds(r, k)
  BY <1>19 DEF DrainEnds
<1>20. CASE Release(r, k)
  <2>1. dir' \in [Request -> {"absent", "empty", "file"}]
    <3>1. PICK left \in {"absent", dir[r]} : dir' = [dir EXCEPT ![r] = left]
      BY <1>20 DEF Release
    <3> QED
      BY <3>1
  <2>2. TypeOK'
    BY <1>20, <2>1 DEF Release
  <2>3. OriginInv' /\ LeaseInv' /\ ClaimHolds' /\ PathInv' /\ ToldInv'
    BY <1>20 DEF Release
  <2> QED
    BY <2>2, <2>3
<1>21. CASE FinishJob(r, k)
  BY <1>21, AttemptHasJob DEF FinishJob
<1> QED
  BY <1>1, <1>2, <1>3, <1>4, <1>5, <1>6, <1>7, <1>8, <1>9, <1>10, <1>11,
     <1>12, <1>13, <1>14, <1>15, <1>16, <1>17, <1>18, <1>19, <1>20, <1>21
     DEF Attempt

-----------------------------------------------------------------------------
\* arq starts an attempt only when no other is running: the in-progress key
\* of the previous one outlasts its job_timeout.
LEMMA StartInv ==
    ASSUME CoreInv, NEW r \in Request, StartJob(r)
    PROVE  CoreInv'
<1> DEFINE n == tries[r] + 1
<1> USE DEF CoreInv, TypeOK
<1>1. /\ n \in Try /\ tries[r] \in Nat
      /\ tries' = [tries EXCEPT ![r] = n]
      /\ ttl' = [ttl EXCEPT ![r] = JobTimeout + Slack]
      /\ pc' = [pc EXCEPT ![r][n] = "started"]
      /\ age' = [age EXCEPT ![r][n] = 0]
      /\ UNCHANGED <<status, rowAge, bot, job, retry, dir, upload,
                     notices, published, reaped, worker, stops>>
      /\ worker = "up" /\ job[r] = "queued" /\ ttl[r] = 0
    BY DEF StartJob, Startable, Try
<1>2. \A k \in Try : pc[r][k] \notin Running
  BY <1>1 DEF LeaseInv
<1>3. pc[r][n] = "none"
  BY <1>1 DEF OriginInv
<1> HIDE DEF n
<1>4. TypeOK'
  <2>1. n \in 0 .. MaxTries
    BY <1>1 DEF Try
  <2>2. tries' \in [Request -> 0 .. MaxTries]
    BY <1>1, <2>1
  <2>3. /\ pc' \in [Request -> [Try -> PC]]
        /\ age' \in [Request -> [Try -> 0 .. JobTimeout + CancelLag]]
        /\ ttl' \in [Request -> 0 .. JobTimeout + Slack]
    BY <1>1
  <2> QED
    BY <1>1, <2>2, <2>3
<1>5. OriginInv'
  <2>1. \A k \in Try : pc[r][k] # "none" => k <= n
    BY <1>1 DEF OriginInv, Try, n
  <2>2. \A k \in Try : pc'[r][k] # "none" => k <= tries'[r]
    BY <1>1, <2>1 DEF Try
  <2> QED
    BY <1>1, <2>2 DEF OriginInv
<1>6. LeaseInv'
  BY <1>1, <1>2, <1>3 DEF LeaseInv
<1>7. ClaimHolds' /\ PathInv'
  BY <1>1, <1>2 DEF ClaimHolds, PathInv
<1>8. ToldInv'
  BY <1>1 DEF ToldInv
<1> QED
  BY <1>4, <1>5, <1>6, <1>7, <1>8

\* The reaper moves only rows that no attempt works on: a claimed row is no
\* older than its attempt, which is no older than JobTimeout.
LEMMA ReapInv ==
    ASSUME CoreInv, FailStale
    PROVE  CoreInv'
<1> USE DEF CoreInv, TypeOK
<1>1. PICK S \in SUBSET Request :
        /\ \A r \in S : status[r] \in Active /\ rowAge[r] > StaleAfter
        /\ status' = [r \in Request |-> IF r \in S THEN "failed" ELSE status[r]]
        /\ rowAge' = [r \in Request |-> IF r \in S THEN 0 ELSE rowAge[r]]
        /\ reaped' = reaped \cup S
  BY DEF FailStale, Batches, Stale
<1>2. UNCHANGED <<bot, job, tries, ttl, pc, age, retry, dir, upload,
                  notices, published, worker, stops>>
  BY DEF FailStale
<1>3. \A r \in S, k \in Try : pc[r][k] \notin Working \cup Closing
  <2> SUFFICES ASSUME NEW r \in S, NEW k \in Try
               PROVE  pc[r][k] \notin Working \cup Closing
    OBVIOUS
  <2>1. pc[r][k] \in Working => rowAge[r] <= age[r][k] /\ age[r][k] <= JobTimeout
    BY <1>1 DEF ClaimHolds, LeaseInv
  <2>2. pc[r][k] \notin Working
    BY <1>1, <2>1 DEF StaleAfter
  <2>3. pc[r][k] \notin Closing
    BY <1>1 DEF PathInv
  <2> QED
    BY <2>2, <2>3
<1>4. TypeOK'
  BY <1>1, <1>2 DEF StaleAfter
<1>5. OriginInv' /\ LeaseInv'
  BY <1>1, <1>2 DEF OriginInv, LeaseInv
<1>6. ClaimHolds' /\ PathInv'
  BY <1>1, <1>2, <1>3 DEF ClaimHolds, PathInv
<1>7. ToldInv'
  <2>1. \A r \in S : notices[r] = 0 /\ r \notin reaped
    <3> TAKE r \in S
    <3>1. r \in Request /\ status[r] \notin Terminal
      BY <1>1
    <3>2. notices[r] \in Nat /\ ~(notices[r] > 0) /\ r \notin reaped
      BY <3>1 DEF ToldInv
    <3> QED
      BY <3>2
  <2>2. \A r \in Request : status'[r] = (IF r \in S THEN "failed" ELSE status[r])
    BY <1>1
  <2> SUFFICES ASSUME NEW r \in Request
               PROVE  ToldInv!(r)'
    BY DEF ToldInv
  <2>3. CASE r \in S
    BY <1>1, <1>2, <1>3, <2>1, <2>2, <2>3
  <2>4. CASE r \notin S
    BY <1>1, <1>2, <2>2, <2>4 DEF ToldInv
  <2> QED
    BY <2>3, <2>4
<1> QED
  BY <1>4, <1>5, <1>6, <1>7

\* Time: a claimed row and its attempt age together, and the in-progress
\* key runs out no faster than the attempt ages.
LEMMA TickInv ==
    ASSUME CoreInv, Tick
    PROVE  CoreInv'
<1> USE DEF CoreInv, TypeOK, Tick, Limit
<1>1. \A r \in Request : rowAge'[r] <= rowAge[r] + 1
  BY DEF StaleAfter
<1>2. TypeOK'
  <2>1. rowAge' \in [Request -> 0 .. StaleAfter + 1]
    BY DEF StaleAfter
  <2>2. ttl' \in [Request -> 0 .. JobTimeout + Slack]
    <3>1. \A r \in Request : ttl[r] \in 0 .. JobTimeout + Slack
      OBVIOUS
    <3>2. ttl' = [r \in Request |-> IF ttl[r] = 0 THEN 0 ELSE ttl[r] - 1]
      OBVIOUS
    <3> HIDE DEF Tick, CoreInv, TypeOK
    <3>3. \A r \in Request : (IF ttl[r] = 0 THEN 0 ELSE ttl[r] - 1)
                                  \in 0 .. JobTimeout + Slack
      BY <3>1
    <3> QED
      BY <3>2, <3>3
  <2>3. age' \in [Request -> [Try -> 0 .. JobTimeout + CancelLag]]
    <3>1. \A r \in Request, k \in Try :
            /\ age[r][k] \in 0 .. JobTimeout + CancelLag
            /\ pc[r][k] # "none" => age[r][k] < JobTimeout + CancelLag
      <4>1. \A r \in Request, k \in Try : age[r][k] \in 0 .. JobTimeout + CancelLag
        OBVIOUS
      <4>2. \A r \in Request, k \in Try :
              pc[r][k] # "none" => age[r][k] < Limit(pc[r][k])
        OBVIOUS
      <4>3. \A p : Limit(p) \in {JobTimeout, JobTimeout + CancelLag}
        OBVIOUS
      <4> HIDE DEF Tick, CoreInv, TypeOK, Limit
      <4> QED
        BY <4>1, <4>2, <4>3
    <3>2. age' = [r \in Request |-> [k \in Try |->
                    IF pc[r][k] = "none" THEN 0 ELSE age[r][k] + 1]]
      OBVIOUS
    <3> HIDE DEF Tick, CoreInv, TypeOK
    <3>3. \A r \in Request, k \in Try :
            (IF pc[r][k] = "none" THEN 0 ELSE age[r][k] + 1)
                \in 0 .. JobTimeout + CancelLag
      BY <3>1
    <3> QED
      BY <3>2, <3>3
  <2>4. UNCHANGED <<status, bot, job, tries, pc, retry, dir, upload, notices,
                    published, reaped, worker, stops>>
    OBVIOUS
  <2> HIDE DEF Tick
  <2> QED
    BY <2>1, <2>2, <2>3, <2>4
<1>3. OriginInv' /\ PathInv' /\ ToldInv'
  BY DEF OriginInv, PathInv, ToldInv
<1>4. LeaseInv'
  BY DEF LeaseInv
<1>5. ClaimHolds'
  BY <1>1, <1>2 DEF ClaimHolds
<1> QED
  BY <1>2, <1>3, <1>4, <1>5

\* arq, the reaper, the worker process and the clock.
LEMMA WorkerInv ==
    ASSUME CoreInv,
           \/ \E r \in Request : StartJob(r) \/ GiveUp(r) \/ NotifyStale(r)
           \/ FailStale \/ Crash \/ Shutdown \/ ShutdownEnds \/ Restart \/ Tick
    PROVE  CoreInv'
<1> USE DEF CoreInv, TypeOK, OriginInv, LeaseInv, ClaimHolds, PathInv, ToldInv
<1>1. ASSUME NEW r \in Request, GiveUp(r)
      PROVE  CoreInv'
  BY <1>1 DEF GiveUp, Startable
<1>2. ASSUME NEW r \in Request, NotifyStale(r)
      PROVE  CoreInv'
  <2>1. PICK n \in {0, 1} : notices' = [notices EXCEPT ![r] = @ + n]
    BY <1>2 DEF NotifyStale
  <2> QED
    BY <1>2, <2>1 DEF NotifyStale
<1>3. CASE Crash
  BY <1>3 DEF Crash
<1>4. CASE Shutdown
  BY <1>4 DEF Shutdown, Cancelled, Finally
<1>5. CASE ShutdownEnds
  BY <1>5 DEF ShutdownEnds
<1>6. CASE Restart
  BY <1>6 DEF Restart
<1> QED
  BY <1>1, <1>2, <1>3, <1>4, <1>5, <1>6, StartInv, ReapInv, TickInv

-----------------------------------------------------------------------------
\* A step that leaves the uploads alone, and brings no attempt that has handed
\* over its file back before the upload.
LEMMA MoveKeepsUploads ==
    ASSUME CoreInv, UploadInv, NEW r \in Request, NEW k \in Try, NEW p \in PC,
           pc' = [pc EXCEPT ![r][k] = p], UNCHANGED <<tries, upload>>,
           p \in BeforeUpload => pc[r][k] \in BeforeUpload,
           p = "delivered" => upload[r][k] = "arrived"
    PROVE  UploadInv'
  BY DEF CoreInv, TypeOK, UploadInv

\* An attempt hands over one file, Telegram finishes with it when it does, and
\* a new attempt starts with nothing handed over.
LEMMA UploadStep ==
    ASSUME CoreInv, UploadInv, Next
    PROVE  UploadInv'
<1>1. ASSUME NEW r \in Request, BotStep(r)
      PROVE  UploadInv'
  BY <1>1 DEF UploadInv, BotStep, Create, EnqueueDownload, EnqueueRaises,
              EnqueueFailed, BotDies
<1>2. ASSUME NEW r \in Request, NEW k \in Try, Attempt(r, k)
      PROVE  UploadInv'
  <2>1. CASE \/ LoadRequest(r, k) \/ ClaimForProcessing(r, k)
             \/ RefuseLowDisk(r, k) \/ StartDownload(r, k)
             \/ DownloadReturns(r, k) \/ DownloadFails(r, k)
             \/ PublishUploading(r, k)
    <3>1. /\ \E p \in PC \ {"delivered"} : pc' = [pc EXCEPT ![r][k] = p]
          /\ pc[r][k] \in BeforeUpload
      BY <2>1
         DEF LoadRequest, ClaimForProcessing, RefuseLowDisk, StartDownload,
             DownloadReturns, DownloadFails, PublishUploading, GoTo,
             BeforeUpload
    <3>2. UNCHANGED <<tries, upload>>
      BY <2>1
         DEF LoadRequest, ClaimForProcessing, RefuseLowDisk, StartDownload,
             DownloadReturns, DownloadFails, PublishUploading
    <3> QED
      BY <3>1, <3>2, MoveKeepsUploads
  <2>2. CASE OnProgress(r, k)
    <3>1. CASE UNCHANGED pc
      BY <2>2, <3>1 DEF OnProgress, UploadInv
    <3>2. CASE pc' = [pc EXCEPT ![r][k] = "poisoned"] /\ pc[r][k] = "downloading"
      BY <2>2, <3>2, MoveKeepsUploads DEF OnProgress, BeforeUpload
    <3> QED
      BY <2>2, <3>1, <3>2 DEF OnProgress, GoTo
  <2>3. CASE SendFile(r, k)
    <3>1. /\ pc' = [pc EXCEPT ![r][k] = "sent"] /\ tries' = tries
          /\ upload' = [upload EXCEPT ![r][k] = "flying"]
          /\ pc[r][k] = "uploading"
      BY <2>3 DEF SendFile, GoTo
    <3>2. k <= tries[r]
      BY <3>1 DEF CoreInv, OriginInv
    <3> QED
      BY <3>1, <3>2 DEF CoreInv, TypeOK, UploadInv, BeforeUpload
  <2>4. CASE SendFileReturns(r, k)
    BY <2>4, MoveKeepsUploads DEF SendFileReturns, GoTo, BeforeUpload
  <2>5. CASE \/ MarkCorrupted(r, k) \/ SendFileRaises(r, k)
             \/ UpdateDone(r, k) \/ PublishDone(r, k)
             \/ UpdateFailed(r, k) \/ PublishFailed(r, k) \/ SendText(r, k)
             \/ Escape(r, k) \/ JobTimesOut(r, k) \/ DrainEnds(r, k)
             \/ Release(r, k) \/ FinishJob(r, k)
    <3>1. /\ \E p \in PC \ (BeforeUpload \cup {"delivered"}) :
               pc' = [pc EXCEPT ![r][k] = p]
          /\ UNCHANGED <<tries, upload>>
      BY <2>5
         DEF MarkCorrupted, SendFileRaises, UpdateDone, PublishDone, UpdateFailed,
             PublishFailed, SendText, Escape, JobTimesOut, DrainEnds, Release,
             FinishJob, GoTo, Cancelled, Finally, BeforeUpload
    <3> QED
      BY <3>1, MoveKeepsUploads
  <2> QED
    BY <1>2, <2>1, <2>2, <2>3, <2>4, <2>5 DEF Attempt
<1>3. ASSUME NEW r \in Request, NEW k \in Try, Arrive(r, k)
      PROVE  UploadInv'
  BY <1>3 DEF Arrive, CoreInv, TypeOK, UploadInv, BeforeUpload
<1>4. ASSUME NEW r \in Request, StartJob(r)
      PROVE  UploadInv'
  <2> DEFINE n == tries[r] + 1
  <2>1. /\ n \in Try /\ tries[r] \in Nat
        /\ tries' = [tries EXCEPT ![r] = n]
        /\ pc' = [pc EXCEPT ![r][n] = "started"]
        /\ upload' = upload
    BY <1>4 DEF StartJob, Try, CoreInv, TypeOK
  <2>2. ~(n <= tries[r])
    BY <2>1
  <2>3. upload[r][n] = "none"
    BY <2>1, <2>2 DEF UploadInv
  <2>4. \A k \in Try : k <= tries[r] => k <= n
    BY <2>1 DEF Try
  <2> HIDE DEF n
  <2> QED
    BY <2>1, <2>3, <2>4 DEF CoreInv, TypeOK, UploadInv
<1>5. CASE Crash
  BY <1>5 DEF Crash, UploadInv, BeforeUpload
<1>6. CASE Shutdown
  <2>1. \A r \in Request, k \in Try :
          /\ pc'[r][k] \in BeforeUpload => pc[r][k] \in BeforeUpload
          /\ pc'[r][k] = "delivered" => pc[r][k] = "delivered"
    BY <1>6 DEF Shutdown, Cancelled, Finally, BeforeUpload
  <2> QED
    BY <1>6, <2>1 DEF Shutdown, UploadInv
<1>7. CASE \/ \E r \in Request : GiveUp(r) \/ NotifyStale(r)
           \/ FailStale \/ ShutdownEnds \/ Restart \/ Tick
  BY <1>7 DEF GiveUp, NotifyStale, FailStale, ShutdownEnds, Restart, Tick,
              UploadInv
<1> QED
  BY <1>1, <1>2, <1>3, <1>4, <1>5, <1>6, <1>7 DEF Next

\* Every step of the system preserves the invariant.
LEMMA NextInv == Inv /\ [Next]_vars => Inv'
<1> SUFFICES ASSUME Inv, [Next]_vars
             PROVE  Inv'
  OBVIOUS
<1>1. CASE UNCHANGED vars
  BY <1>1 DEF vars, Inv, CoreInv, TypeOK, OriginInv, LeaseInv, ClaimHolds,
              PathInv, ToldInv, UploadInv
<1>2. CASE Next
  <2>1. ASSUME NEW r \in Request, NEW k \in Try, Arrive(r, k)
        PROVE  CoreInv'
    BY <2>1 DEF Arrive, Inv, CoreInv, TypeOK, OriginInv, LeaseInv, ClaimHolds,
                PathInv, ToldInv
  <2>2. CoreInv'
    BY <1>2, <2>1, BotInv, AttemptInv, WorkerInv DEF Next, Inv
  <2>3. UploadInv'
    BY <1>2, UploadStep DEF Inv
  <2> QED
    BY <2>2, <2>3 DEF Inv
<1> QED
  BY <1>1, <1>2

\* Inv holds throughout: DownloadLifecycle is type-correct, a worker's claim
\* holds against reaper and reruns, and no user is told twice.
THEOREM Invariance == Spec => []Inv
<1>1. Init => Inv
  BY InitInv
<1>2. Inv /\ [Next]_vars => Inv'
  BY NextInv
<1> QED
  BY <1>1, <1>2, PTL DEF Spec

\* The reaper never takes a request from an attempt that works on it, for
\* every JobTimeout, Grace and CancelLag (ADR 0004, decision 4).
THEOREM ClaimIsExclusive == Spec => []ClaimHolds
<1>1. Inv => ClaimHolds
  BY DEF Inv, CoreInv
<1> QED
  BY <1>1, Invariance, PTL

\* A readable request's user is told of its failure at most once.
THEOREM ToldOnce == Spec => []ToldAtMostOnce
<1>1. Inv => ToldAtMostOnce
  BY DEF Inv, CoreInv, ToldInv, ToldAtMostOnce, TypeOK
<1> QED
  BY <1>1, Invariance, PTL

-----------------------------------------------------------------------------
\* No step writes a row that is DONE or FAILED, but the bot's mark_failed
\* and the update of a job the bot believes was never enqueued.
LEMMA TerminalStep ==
    ASSUME Inv, Next, NEW r \in Request,
           status[r] \in Terminal, status'[r] # status[r]
    PROVE  Doubtful(r)
<1> USE DEF Inv, CoreInv, TypeOK, Doubtful
<1>1. ASSUME NEW q \in Request, BotStep(q)
      PROVE  Doubtful(r)
  BY <1>1 DEF BotStep, Create, EnqueueDownload, EnqueueRaises, EnqueueFailed,
              BotDies, Write, OriginInv
<1>2. ASSUME NEW q \in Request, NEW k \in Try, Attempt(q, k)
      PROVE  Doubtful(r)
  <2>1. CASE UNCHANGED status
    BY <2>1
  <2>2. CASE MarkCorrupted(q, k)
    BY <2>2 DEF MarkCorrupted, Write, PathInv, OriginInv
  <2>3. CASE ClaimForProcessing(q, k)
    BY <2>3 DEF ClaimForProcessing, Write
  <2>4. CASE UpdateDone(q, k)
    BY <2>4, AttemptHasJob DEF UpdateDone, Write, ClaimHolds
  <2>5. CASE UpdateFailed(q, k)
    BY <2>5, AttemptHasJob DEF UpdateFailed, Write, ClaimHolds
  <2>6. \/ MarkCorrupted(q, k) \/ ClaimForProcessing(q, k)
        \/ UpdateDone(q, k) \/ UpdateFailed(q, k) \/ UNCHANGED status
    BY <1>2
       DEF Attempt, LoadRequest, RefuseLowDisk, StartDownload, OnProgress,
           DownloadReturns, DownloadFails, PublishUploading, SendFile,
           SendFileReturns, SendFileRaises, PublishDone, PublishFailed,
           SendText, Escape, JobTimesOut, DrainEnds, Release, FinishJob
  <2> QED
    BY <2>1, <2>2, <2>3, <2>4, <2>5, <2>6
<1>3. CASE FailStale
  BY <1>3 DEF FailStale, Batches, Stale
<1>4. CASE \/ \E q \in Request : StartJob(q) \/ GiveUp(q) \/ NotifyStale(q)
           \/ \E q \in Request, k \in Try : Arrive(q, k)
           \/ Crash \/ Shutdown \/ ShutdownEnds \/ Restart \/ Tick
  BY <1>4 DEF StartJob, GiveUp, NotifyStale, Arrive, Crash, Shutdown,
              ShutdownEnds, Restart, Tick
<1> QED
  BY <1>1, <1>2, <1>3, <1>4 DEF Next

\* DONE and FAILED are final, whatever reruns, timeouts and reapers do.
THEOREM Finality == Spec => TerminalIsFinal
<1>1. Inv /\ [Next]_vars =>
        [\A r \in Request :
           status[r] \in Terminal /\ status'[r] # status[r] => Doubtful(r)]_vars
  BY TerminalStep
<1> QED
  BY <1>1, Invariance, PTL DEF Spec, TerminalIsFinal

\* Only SendFile hands a file over, and its attempt works on a request whose
\* user was told nothing.
LEMMA HandOverStep ==
    ASSUME Inv, Next, NEW r \in Request, NEW l \in Try,
           upload[r][l] = "none", upload'[r][l] # "none"
    PROVE  notices[r] = 0
<1>1. ASSUME NEW q \in Request, NEW k \in Try, Attempt(q, k)
      PROVE  notices[r] = 0
  <2>1. CASE UNCHANGED upload
    BY <2>1
  <2>2. CASE SendFile(q, k)
    <3>1. /\ pc[q][k] = "uploading"
          /\ upload' = [upload EXCEPT ![q][k] = "flying"]
      BY <2>2 DEF SendFile
    <3>2. notices[q] = 0
      BY <3>1 DEF Inv, CoreInv, ToldInv
    <3>3. q = r
      BY <3>1 DEF Inv, CoreInv, TypeOK
    <3> QED
      BY <3>2, <3>3
  <2> QED
    BY <1>1, <2>1, <2>2
       DEF Attempt, LoadRequest, MarkCorrupted, ClaimForProcessing,
           RefuseLowDisk, StartDownload, OnProgress, DownloadReturns,
           DownloadFails, PublishUploading, SendFileReturns, SendFileRaises,
           UpdateDone, PublishDone, UpdateFailed, PublishFailed, SendText,
           Escape, JobTimesOut, DrainEnds, Release, FinishJob
<1>2. ASSUME NEW q \in Request, NEW k \in Try, Arrive(q, k)
      PROVE  notices[r] = 0
  BY <1>2 DEF Arrive, Inv, CoreInv, TypeOK
<1>3. CASE \/ \E q \in Request : BotStep(q) \/ StartJob(q) \/ GiveUp(q)
                               \/ NotifyStale(q)
           \/ FailStale \/ Crash \/ Shutdown \/ ShutdownEnds \/ Restart \/ Tick
  BY <1>3 DEF BotStep, Create, EnqueueDownload, EnqueueRaises, EnqueueFailed,
              BotDies, StartJob, GiveUp, NotifyStale, FailStale, Crash,
              Shutdown, ShutdownEnds, Restart, Tick
<1> QED
  BY <1>1, <1>2, <1>3 DEF Next

\* Once a user was told that the request failed, no attempt hands its file to
\* Telegram: what still arrives then was in Telegram's hands before.
THEOREM NoLateUpload == Spec => NoUploadAfterFailureText
<1>1. Inv /\ [Next]_vars =>
        [\A r \in Request, k \in Try :
           upload[r][k] = "none" /\ upload'[r][k] # "none" => notices[r] = 0]_vars
  BY HandOverStep
<1> QED
  BY <1>1, Invariance, PTL DEF Spec, NoUploadAfterFailureText

-----------------------------------------------------------------------------
(***************************************************************************)
(* What needs CancelLag < Slack: arq's in-progress key outlasts a job that *)
(* was cancelled, so attempts at a request follow one another.             *)
(***************************************************************************)

\* A step of an attempt, but its last, moves that attempt and leaves arq's
\* bookkeeping alone.
LEMMA AttemptFrame ==
    ASSUME Inv, NEW r \in Request, NEW k \in Try, Attempt(r, k),
           ~FinishJob(r, k)
    PROVE  /\ pc[r][k] # "none"
           /\ \E p \in PC \ {"none"} : pc' = [pc EXCEPT ![r][k] = p]
           /\ UNCHANGED <<tries, job, ttl, age, worker, stops>>
<1> USE DEF GoTo
<1>0. pc[r][k] \in PC /\ pc = [pc EXCEPT ![r][k] = pc[r][k]]
  BY DEF Inv, CoreInv, TypeOK
<1>1. CASE \/ LoadRequest(r, k) \/ MarkCorrupted(r, k)
           \/ ClaimForProcessing(r, k) \/ RefuseLowDisk(r, k)
           \/ StartDownload(r, k)
  BY <1>1 DEF LoadRequest, MarkCorrupted, ClaimForProcessing, RefuseLowDisk,
              StartDownload
<1>2. CASE OnProgress(r, k)
  BY <1>0, <1>2 DEF OnProgress
<1>3. CASE \/ DownloadReturns(r, k) \/ DownloadFails(r, k)
           \/ PublishUploading(r, k) \/ SendFile(r, k) \/ SendFileReturns(r, k)
           \/ SendFileRaises(r, k) \/ UpdateDone(r, k) \/ PublishDone(r, k)
           \/ UpdateFailed(r, k) \/ PublishFailed(r, k)
  BY <1>3 DEF DownloadReturns, DownloadFails, PublishUploading, SendFile,
              SendFileReturns, SendFileRaises, UpdateDone, PublishDone,
              UpdateFailed, PublishFailed
<1>4. CASE \/ SendText(r, k) \/ Escape(r, k) \/ JobTimesOut(r, k)
           \/ DrainEnds(r, k) \/ Release(r, k)
  BY <1>4 DEF SendText, Escape, Fallible, JobTimesOut, Cancelled, Finally,
              DrainEnds, Release
<1> QED
  BY <1>1, <1>2, <1>3, <1>4 DEF Attempt

\* No step puts a second attempt beside one that is still there.
LEMMA SoleStep ==
    ASSUME CancelLag < Slack, Inv, SoleInv, Next
    PROVE  SoleInv'
<1> USE DEF Inv, CoreInv, TypeOK, SoleInv
<1>1. ASSUME NEW r \in Request, BotStep(r)
      PROVE  SoleInv'
  <2>1. UNCHANGED <<tries, ttl, pc, age>>
    BY <1>1 DEF BotStep, Create, EnqueueDownload, EnqueueRaises, EnqueueFailed,
                BotDies
  <2>2. PICK j : job' = [job EXCEPT ![r] = j]
                 /\ (job' = job \/ bot[r] = "created")
    <3>1. job = [job EXCEPT ![r] = job[r]]
      OBVIOUS
    <3> QED
      BY <1>1, <3>1 DEF BotStep, Create, EnqueueDownload, EnqueueRaises,
                        EnqueueFailed, BotDies
  <2>3. CASE job' = job
    BY <2>1, <2>3
  <2>4. CASE bot[r] = "created"
    <3>1. \A k \in Try : pc[r][k] = "none"
      BY <2>4, AttemptHasJob
    <3> QED
      BY <2>1, <2>2, <3>1
  <2> QED
    BY <2>2, <2>3, <2>4
<1>2. ASSUME NEW r \in Request, NEW k \in Try, Attempt(r, k)
      PROVE  SoleInv'
  <2>1. CASE FinishJob(r, k)
    <3>1. /\ pc[r][k] = "ended" /\ pc' = [pc EXCEPT ![r][k] = "none"]
          /\ age' = [age EXCEPT ![r][k] = 0]
          /\ ttl' = [ttl EXCEPT ![r] = 0] /\ tries' = tries
          /\ \A q \in Request : q # r => job'[q] = job[q]
      BY <2>1 DEF FinishJob
    <3>2. \A l \in Try : pc'[r][l] = "none"
      BY <3>1
    <3> QED
      BY <3>1, <3>2
  <2>2. CASE ~FinishJob(r, k)
    <3>1. PICK p \in PC \ {"none"} : pc' = [pc EXCEPT ![r][k] = p]
      BY <1>2, <2>2, AttemptFrame
    <3>2. pc[r][k] # "none" /\ UNCHANGED <<tries, job, ttl, age>>
      BY <1>2, <2>2, AttemptFrame
    <3> QED
      BY <3>1, <3>2
  <2> QED
    BY <2>1, <2>2
<1>3. ASSUME NEW r \in Request, StartJob(r)
      PROVE  SoleInv'
  <2>1. ttl[r] = 0 /\ job[r] = "queued" /\ job' = job
    BY <1>3 DEF StartJob, Startable
  <2>2. \A k \in Try : pc[r][k] = "none"
    BY <2>1
  <2>3. /\ tries' = [tries EXCEPT ![r] = tries[r] + 1]
        /\ ttl' = [ttl EXCEPT ![r] = JobTimeout + Slack]
        /\ pc' = [pc EXCEPT ![r][tries[r] + 1] = "started"]
        /\ age' = [age EXCEPT ![r][tries[r] + 1] = 0]
        /\ tries[r] + 1 \in Try
    BY <1>3 DEF StartJob, Try
  <2> QED
    BY <2>1, <2>2, <2>3
<1>4. ASSUME NEW r \in Request, GiveUp(r)
      PROVE  SoleInv'
  <2>1. ttl[r] = 0 /\ job[r] = "queued"
    BY <1>4 DEF GiveUp, Startable
  <2>2. \A k \in Try : pc[r][k] = "none"
    BY <2>1
  <2> QED
    BY <1>4, <2>2 DEF GiveUp
<1>5. ASSUME NEW r \in Request, NotifyStale(r)
      PROVE  SoleInv'
  BY <1>5 DEF NotifyStale
<1>6. CASE \/ FailStale \/ ShutdownEnds \/ Restart
           \/ \E r \in Request, k \in Try : Arrive(r, k)
  BY <1>6 DEF FailStale, ShutdownEnds, Restart, Arrive
<1>7. CASE Crash
  BY <1>7 DEF Crash
<1>8. CASE Shutdown
  <2>1. \A r \in Request, k \in Try : pc'[r][k] # "none" => pc[r][k] # "none"
    BY <1>8 DEF Shutdown
  <2> QED
    BY <1>8, <2>1 DEF Shutdown
<1>9. CASE Tick
  <2> SUFFICES ASSUME NEW r \in Request, NEW k \in Try, pc'[r][k] # "none"
               PROVE  /\ k = tries'[r] /\ job'[r] = "queued"
                      /\ age'[r][k] + ttl'[r] >= JobTimeout + Slack
    OBVIOUS
  <2>1. /\ pc[r][k] # "none" /\ k = tries'[r] /\ job'[r] = "queued"
        /\ age[r][k] < JobTimeout + CancelLag
        /\ age[r][k] + ttl[r] >= JobTimeout + Slack
    <3>1. pc[r][k] # "none" /\ tries' = tries /\ job' = job
      BY <1>9 DEF Tick
    <3>2. age[r][k] < Limit(pc[r][k])
      BY <1>9, <3>1 DEF Tick
    <3>3. age[r][k] < JobTimeout + CancelLag
      BY <3>2 DEF Limit
    <3> QED
      BY <3>1, <3>3
  <2>2. ttl[r] # 0
    BY <2>1
  <2>3. age'[r][k] = age[r][k] + 1 /\ ttl'[r] = ttl[r] - 1
    BY <1>9, <2>1, <2>2 DEF Tick
  <2> QED
    BY <2>1, <2>3
<1> QED
  BY <1>1, <1>2, <1>3, <1>4, <1>5, <1>6, <1>7, <1>8, <1>9 DEF Next

\* Starts are counted against the stops of the worker.
LEMMA CopiesStep ==
    ASSUME CancelLag < Slack, Inv, SoleInv, CopiesInv, Next
    PROVE  CopiesInv'
<1> USE DEF Inv, CoreInv, TypeOK, CopiesInv
<1>1. ASSUME NEW r \in Request, BotStep(r)
      PROVE  CopiesInv'
  <2>1. UNCHANGED <<tries, pc, worker, stops>>
    BY <1>1 DEF BotStep, Create, EnqueueDownload, EnqueueRaises, EnqueueFailed,
                BotDies
  <2>2. \A q \in Request : job'[q] = job[q] \/ tries[q] = 0
    BY <1>1 DEF BotStep, Create, EnqueueDownload, EnqueueRaises, EnqueueFailed,
                BotDies, OriginInv
  <2>3. stops \in Nat
    OBVIOUS
  <2> HIDE DEF Inv, CoreInv, TypeOK
  <2> QED
    BY <2>1, <2>2, <2>3
<1>2. ASSUME NEW r \in Request, NEW k \in Try, Attempt(r, k)
      PROVE  CopiesInv'
  <2>1. CASE FinishJob(r, k)
    <3>1. /\ pc[r][k] = "ended" /\ pc' = [pc EXCEPT ![r][k] = "none"]
          /\ job' = [job EXCEPT ![r] = IF retry[r][k] THEN @ ELSE "finished"]
          /\ UNCHANGED <<tries, worker, stops>>
      BY <2>1 DEF FinishJob
    <3>2. worker = "up" => job'[r] = "finished"
      BY <3>1 DEF LeaseInv
    <3>3. \A q \in Request : q # r => job'[q] = job[q]
      BY <3>1
    <3> HIDE DEF Inv
    <3> QED
      BY <3>1, <3>2, <3>3
  <2>2. CASE ~FinishJob(r, k)
    <3>1. PICK p \in PC \ {"none"} : pc' = [pc EXCEPT ![r][k] = p]
      BY <1>2, <2>2, AttemptFrame
    <3>2. pc[r][k] # "none" /\ UNCHANGED <<tries, job, worker, stops>>
      BY <1>2, <2>2, AttemptFrame
    <3> QED
      BY <3>1, <3>2
  <2> QED
    BY <2>1, <2>2
<1>3. ASSUME NEW r \in Request, StartJob(r)
      PROVE  CopiesInv'
  <2>1. ttl[r] = 0 /\ job[r] = "queued" /\ worker = "up"
    BY <1>3 DEF StartJob, Startable
  <2>2. \A k \in Try : pc[r][k] = "none"
    <3> SUFFICES ASSUME NEW k \in Try, pc[r][k] # "none"
                 PROVE  FALSE
      OBVIOUS
    <3>1. age[r][k] + ttl[r] >= JobTimeout + Slack
      BY DEF SoleInv
    <3> QED
      BY <2>1, <3>1
  <2>3. /\ tries' = [tries EXCEPT ![r] = tries[r] + 1]
        /\ pc' = [pc EXCEPT ![r][tries[r] + 1] = "started"]
        /\ tries[r] + 1 \in Try
        /\ UNCHANGED <<job, worker, stops>>
    BY <1>3 DEF StartJob, Try
  <2>4. tries[r] <= stops
    BY <2>1, <2>2
  <2> QED
    BY <2>1, <2>2, <2>3, <2>4
<1>4. ASSUME NEW r \in Request, GiveUp(r)
      PROVE  CopiesInv'
  BY <1>4 DEF GiveUp, Startable
<1>5. ASSUME NEW r \in Request, NotifyStale(r)
      PROVE  CopiesInv'
  BY <1>5 DEF NotifyStale
<1>6. CASE FailStale \/ Tick \/ \E r \in Request, k \in Try : Arrive(r, k)
  BY <1>6 DEF FailStale, Tick, Arrive
<1>7. CASE Restart \/ ShutdownEnds
  BY <1>7 DEF Restart, ShutdownEnds
<1>8. CASE Crash
  BY <1>8 DEF Crash
<1>9. CASE Shutdown
  BY <1>9 DEF Shutdown
<1> QED
  BY <1>1, <1>2, <1>3, <1>4, <1>5, <1>6, <1>7, <1>8, <1>9 DEF Next

\* A step of the only attempt there is, when it publishes nothing final.
LEMMA MoveKeepsPhase ==
    ASSUME Inv, PhaseInv, NEW r \in Request, NEW k \in Try, NEW p \in PC,
           pc' = [pc EXCEPT ![r][k] = p],
           \A q \in Request : status[q] \in Terminal => status'[q] \in Terminal,
           published' = published,
           p = "doneWritten" => r \notin Unreadable,
           published[r] \in {"done", "failed"} =>
               /\ p \notin Working \cup {"draining", "doneWritten"}
               /\ p = "marked" => r \in Unreadable
    PROVE  PhaseInv'
  BY DEF Inv, CoreInv, TypeOK, PhaseInv

\* A publish that is not final, by an attempt that could not be there if a
\* final phase had been published.
LEMMA PublishKeepsPhase ==
    ASSUME Inv, PhaseInv, NEW r \in Request, NEW k \in Try,
           NEW p \in PC \ {"doneWritten"},
           pc' = [pc EXCEPT ![r][k] = p], status' = status,
           pc[r][k] \in Working \cup {"draining"},
           \/ published' = published
           \/ \E phase \in {"downloading", "uploading"} :
                 published' = [published EXCEPT ![r] = phase]
    PROVE  PhaseInv' /\ published[r] \notin {"done", "failed"}
<1>1. published[r] \notin {"done", "failed"}
  BY DEF PhaseInv
<1>2. /\ published'[r] \notin {"done", "failed"}
      /\ \A q \in Request : q # r => published'[q] = published[q]
  BY <1>1 DEF Inv, CoreInv, TypeOK
<1> QED
  BY <1>1, <1>2 DEF Inv, CoreInv, TypeOK, PhaseInv

\* A final publish, by the only attempt there is.
LEMMA FinalKeepsPhase ==
    ASSUME Inv, SoleInv, PhaseInv, NEW r \in Request, NEW k \in Try,
           NEW p \in {"releasing", "telling"}, NEW phase \in {"done", "failed"},
           pc' = [pc EXCEPT ![r][k] = p], status' = status,
           status[r] \in Terminal, pc[r][k] # "none",
           phase = "done" => r \notin Unreadable,
           PublishPhase(r, phase)
    PROVE  PhaseInv'
<1>1. \A l \in Try : l # k => pc[r][l] = "none"
  BY DEF SoleInv
<1>2. \A l \in Try : pc'[r][l] \in {"none", p}
  BY <1>1 DEF Inv, CoreInv, TypeOK
<1>3. /\ published'[r] \in {published[r], phase}
      /\ \A q \in Request : q # r => published'[q] = published[q]
  BY DEF PublishPhase, Inv, CoreInv, TypeOK
<1>4. published'[r] = "done" => r \notin Unreadable
  BY <1>3 DEF PhaseInv
<1>5. \A q \in Request : q # r => pc'[q] = pc[q]
  BY DEF Inv, CoreInv, TypeOK
<1> QED
  BY <1>2, <1>3, <1>4, <1>5 DEF PhaseInv

\* A row that is closed stays closed.
LEMMA ClosedStaysClosed ==
    ASSUME Inv, Next, NEW r \in Request, status[r] \in Terminal
    PROVE  status'[r] \in Terminal
<1> USE DEF Inv, CoreInv, TypeOK
<1>1. ASSUME NEW q \in Request, BotStep(q)
      PROVE  status'[r] \in Terminal
  BY <1>1 DEF BotStep, Create, EnqueueDownload, EnqueueRaises, EnqueueFailed,
              BotDies, Write, OriginInv
<1>2. ASSUME NEW q \in Request, NEW k \in Try, Attempt(q, k)
      PROVE  status'[r] \in Terminal
  BY <1>2
     DEF Attempt, LoadRequest, MarkCorrupted, ClaimForProcessing,
         RefuseLowDisk, StartDownload, OnProgress, DownloadReturns,
         DownloadFails, PublishUploading, SendFile, SendFileReturns, SendFileRaises,
         UpdateDone, PublishDone, UpdateFailed, PublishFailed, SendText,
         Escape, JobTimesOut, DrainEnds, Release, FinishJob, Write
<1>3. CASE FailStale
  BY <1>3 DEF FailStale
<1>4. CASE \/ \E q \in Request : StartJob(q) \/ GiveUp(q) \/ NotifyStale(q)
           \/ \E q \in Request, k \in Try : Arrive(q, k)
           \/ Crash \/ Shutdown \/ ShutdownEnds \/ Restart \/ Tick
  BY <1>4 DEF StartJob, GiveUp, NotifyStale, Arrive, Crash, Shutdown,
              ShutdownEnds, Restart, Tick
<1> QED
  BY <1>1, <1>2, <1>3, <1>4 DEF Next

\* After a final phase nothing else is published, and no later attempt gets
\* past the claim.
LEMMA PhaseStep ==
    ASSUME Inv, SoleInv, PhaseInv, Next
    PROVE  /\ PhaseInv'
           /\ \A r \in Request : published[r] \in {"done", "failed"} =>
                 published'[r] = published[r]
<1> USE DEF Inv, CoreInv, TypeOK
<1>0. \A q \in Request : status[q] \in Terminal => status'[q] \in Terminal
  BY ClosedStaysClosed
<1>1. ASSUME NEW r \in Request, BotStep(r)
      PROVE  PhaseInv' /\ published' = published
  <2>1. UNCHANGED <<pc, published>>
    BY <1>1 DEF BotStep, Create, EnqueueDownload, EnqueueRaises, EnqueueFailed,
                BotDies
  <2> QED
    BY <1>0, <2>1 DEF PhaseInv
<1>2. ASSUME NEW r \in Request, NEW k \in Try, Attempt(r, k)
      PROVE  /\ PhaseInv'
             /\ \A q \in Request : published[q] \in {"done", "failed"} =>
                   published'[q] = published[q]
  <2>1. CASE OnProgress(r, k)
    <3>1. PICK p \in PC \ {"doneWritten"} : pc' = [pc EXCEPT ![r][k] = p]
      <4>1. pc[r][k] \in PC /\ pc = [pc EXCEPT ![r][k] = pc[r][k]]
        OBVIOUS
      <4> QED
        BY <2>1, <4>1 DEF OnProgress, GoTo
    <3>2. /\ pc[r][k] \in Working \cup {"draining"} /\ status' = status
          /\ \/ published' = published
             \/ published' = [published EXCEPT ![r] = "downloading"]
      BY <2>1 DEF OnProgress
    <3>3. PhaseInv' /\ published[r] \notin {"done", "failed"}
      BY <3>1, <3>2, PublishKeepsPhase
    <3> QED
      BY <3>2, <3>3
  <2>2. CASE PublishUploading(r, k)
    <3>1. /\ pc' = [pc EXCEPT ![r][k] = "uploading"]
          /\ pc[r][k] \in Working \cup {"draining"} /\ status' = status
          /\ \/ published' = published
             \/ published' = [published EXCEPT ![r] = "uploading"]
      BY <2>2 DEF PublishUploading, GoTo, PublishPhase
    <3>2. PhaseInv' /\ published[r] \notin {"done", "failed"}
      BY <3>1, PublishKeepsPhase
    <3> QED
      BY <3>1, <3>2
  <2>3. CASE PublishDone(r, k)
    <3>1. /\ pc' = [pc EXCEPT ![r][k] = "releasing"] /\ status' = status
          /\ pc[r][k] = "doneWritten" /\ PublishPhase(r, "done")
      BY <2>3 DEF PublishDone, GoTo
    <3>2. status[r] \in Terminal /\ r \notin Unreadable
      BY <3>1 DEF PathInv, PhaseInv
    <3>3. PhaseInv'
      BY <3>1, <3>2, FinalKeepsPhase
    <3>4. published[r] \notin {"done", "failed"}
      BY <3>1 DEF PhaseInv
    <3> QED
      BY <3>1, <3>3, <3>4 DEF PublishPhase
  <2>4. CASE PublishFailed(r, k)
    <3>1. /\ pc' = [pc EXCEPT ![r][k] = "telling"] /\ status' = status
          /\ pc[r][k] = "marked" /\ PublishPhase(r, "failed")
      BY <2>4 DEF PublishFailed, GoTo
    <3>2. status[r] \in Terminal
      BY <3>1 DEF PathInv
    <3>3. PhaseInv'
      BY <3>1, <3>2, FinalKeepsPhase
    <3>4. published[r] # "done"
      BY <3>1 DEF PhaseInv
    <3> QED
      BY <3>1, <3>3, <3>4 DEF PublishPhase
  <2>5. CASE \/ LoadRequest(r, k) \/ MarkCorrupted(r, k)
             \/ ClaimForProcessing(r, k)
    <3>1. PICK p \in {"corrupt", "loaded", "ended", "marked", "claimed"} :
            /\ pc' = [pc EXCEPT ![r][k] = p]
            /\ p = "marked" => pc[r][k] = "corrupt"
            /\ p = "claimed" => status[r] \in Active
      BY <2>5 DEF LoadRequest, MarkCorrupted, ClaimForProcessing, GoTo
    <3>2. published' = published
      BY <2>5 DEF LoadRequest, MarkCorrupted, ClaimForProcessing
    <3>3. published[r] \in {"done", "failed"} =>
            p # "claimed" /\ (p = "marked" => r \in Unreadable)
      BY <3>1 DEF PhaseInv, PathInv
    <3> QED
      BY <1>0, <3>1, <3>2, <3>3, MoveKeepsPhase
  <2>6. CASE \/ RefuseLowDisk(r, k) \/ StartDownload(r, k)
             \/ DownloadReturns(r, k) \/ DownloadFails(r, k) \/ SendFile(r, k)
             \/ SendFileReturns(r, k) \/ SendFileRaises(r, k)
             \/ UpdateDone(r, k) \/ UpdateFailed(r, k)
    <3>1. PICK p \in PC : pc' = [pc EXCEPT ![r][k] = p]
      BY <2>6 DEF RefuseLowDisk, StartDownload, DownloadReturns, DownloadFails,
                  SendFile, SendFileReturns, SendFileRaises, UpdateDone, UpdateFailed, GoTo
    <3>2. pc[r][k] \in Working /\ published' = published
      BY <2>6 DEF RefuseLowDisk, StartDownload, DownloadReturns, DownloadFails,
                  SendFile, SendFileReturns, SendFileRaises, UpdateDone, UpdateFailed
    <3>3. published[r] \notin {"done", "failed"} /\ r \notin Unreadable
      BY <3>2 DEF PhaseInv, PathInv
    <3> QED
      BY <1>0, <3>1, <3>2, <3>3, MoveKeepsPhase
  <2>7. CASE \/ SendText(r, k) \/ Escape(r, k) \/ JobTimesOut(r, k)
             \/ DrainEnds(r, k) \/ Release(r, k) \/ FinishJob(r, k)
    <3>1. PICK p \in {"ended", "releasing", "draining", "none"} :
            /\ pc' = [pc EXCEPT ![r][k] = p]
            /\ p = "draining" => pc[r][k] = "downloading"
      BY <2>7 DEF SendText, Escape, JobTimesOut, DrainEnds, Release, FinishJob,
                  GoTo, Cancelled, Finally
    <3>2. published' = published
      BY <2>7 DEF SendText, Escape, JobTimesOut, DrainEnds, Release, FinishJob
    <3>3. published[r] \in {"done", "failed"} => p # "draining"
      BY <3>1 DEF PhaseInv
    <3> QED
      BY <1>0, <3>1, <3>2, <3>3, MoveKeepsPhase
  <2> QED
    BY <1>2, <2>1, <2>2, <2>3, <2>4, <2>5, <2>6, <2>7 DEF Attempt
<1>3. ASSUME NEW r \in Request, StartJob(r)
      PROVE  PhaseInv' /\ published' = published
  <2> DEFINE n == tries[r] + 1
  <2>1. n \in Try
    BY <1>3 DEF StartJob, Try
  <2>2. pc' = [pc EXCEPT ![r][n] = "started"] /\ published' = published
    BY <1>3 DEF StartJob
  <2>3. "started" \in PC /\ "started" \notin Working \cup Closing \cup {"draining"}
    OBVIOUS
  <2> HIDE DEF n, Inv, TypeOK
  <2> QED
    BY <1>0, <2>1, <2>2, <2>3, MoveKeepsPhase
<1>4. CASE \/ \E r \in Request : GiveUp(r) \/ NotifyStale(r)
           \/ \E r \in Request, k \in Try : Arrive(r, k)
           \/ FailStale \/ ShutdownEnds \/ Restart \/ Tick
  <2>1. UNCHANGED <<pc, published>>
    BY <1>4 DEF GiveUp, NotifyStale, Arrive, FailStale, ShutdownEnds, Restart,
                Tick
  <2> QED
    BY <1>0, <2>1 DEF PhaseInv
<1>5. CASE Crash
  BY <1>0, <1>5 DEF Crash, PhaseInv
<1>6. CASE Shutdown
  <2>1. \A r \in Request, k \in Try :
           \/ pc'[r][k] = pc[r][k]
           \/ pc'[r][k] \in {"ended", "releasing"}
           \/ pc'[r][k] = "draining" /\ pc[r][k] = "downloading"
    BY <1>6 DEF Shutdown, Cancelled, Finally
  <2>2. published' = published
    BY <1>6 DEF Shutdown
  <2> HIDE DEF Inv, CoreInv, TypeOK
  <2>3. ASSUME NEW r \in Request
        PROVE  PhaseInv!(r)'
    <3>1. \A k \in Try : pc'[r][k] = "doneWritten" => r \notin Unreadable
      BY <2>1 DEF PhaseInv
    <3>2. CASE published[r] \in {"done", "failed"}
      <4>1. \A k \in Try : /\ pc[r][k] \notin Working \cup {"draining", "doneWritten"}
                           /\ pc[r][k] = "marked" => r \in Unreadable
        BY <3>2 DEF PhaseInv
      <4>2. \A k \in Try : /\ pc'[r][k] \notin Working \cup {"draining", "doneWritten"}
                           /\ pc'[r][k] = "marked" => r \in Unreadable
        BY <2>1, <4>1
      <4>3. status'[r] \in Terminal /\ (published[r] = "done" => r \notin Unreadable)
        BY <1>0, <3>2 DEF PhaseInv
      <4> QED
        BY <2>2, <3>1, <4>2, <4>3
    <3>3. CASE published[r] \notin {"done", "failed"}
      BY <2>2, <3>1, <3>3
    <3> QED
      BY <3>2, <3>3
  <2> QED
    BY <2>2, <2>3 DEF PhaseInv
<1> QED
  BY <1>1, <1>2, <1>3, <1>4, <1>5, <1>6 DEF Next

\* The three parts, preserved together.
LEMMA SerialStep ==
    ASSUME CancelLag < Slack, Inv, SerialInv, [Next]_vars
    PROVE  SerialInv'
<1>1. CASE Next
  BY <1>1, SoleStep, CopiesStep, PhaseStep DEF SerialInv
<1>2. CASE UNCHANGED vars
  BY <1>2 DEF vars, SerialInv, SoleInv, CopiesInv, PhaseInv
<1> QED
  BY <1>1, <1>2

\* SerialInv holds throughout when the unwinding of a cancelled job is shorter
\* than the margin of arq's in-progress key.
LEMMA Serial ==
    ASSUME CancelLag < Slack
    PROVE  Spec => []SerialInv
<1>1. Init => SerialInv
  BY DEF Init, SerialInv, SoleInv, CopiesInv, PhaseInv
<1>2. Inv /\ SerialInv /\ [Next]_vars => SerialInv'
  BY SerialStep
<1> QED
  BY <1>1, <1>2, Invariance, PTL DEF Spec

\* arq never runs two attempts at one request together, so none releases the
\* files of another, for every number of tries, crashes and timeouts.
THEOREM AttemptsAreSerial ==
    ASSUME CancelLag < Slack
    PROVE  Spec => []OneAttemptAtATime
<1>1. SerialInv => OneAttemptAtATime
  BY DEF SerialInv, SoleInv, OneAttemptAtATime
<1> QED
  BY <1>1, Serial, PTL

\* Every copy of the file but the first is the price of a stop of the worker:
\* the attempts that handed one over are among those arq has started.
THEOREM CopiesArePaidFor ==
    ASSUME CancelLag < Slack
    PROVE  Spec => []ResentOnlyAfterStop
<1>1. Inv /\ SerialInv => ResentOnlyAfterStop
  <2> SUFFICES ASSUME Inv, SerialInv, NEW r \in Request
               PROVE  Cardinality(Copies(r)) <= 1 + stops
    BY DEF ResentOnlyAfterStop
  <2>1. tries[r] \in Nat /\ tries[r] <= 1 + stops /\ stops \in Nat
    BY DEF Inv, CoreInv, TypeOK, SerialInv, CopiesInv
  <2>2. Copies(r) \subseteq 1 .. tries[r]
    BY <2>1 DEF Inv, UploadInv, Copies, Try
  <2>3. IsFiniteSet(1 .. tries[r]) /\ Cardinality(1 .. tries[r]) = tries[r]
    <3>1. 1 \in Int /\ tries[r] \in Int
      BY <2>1
    <3>2. /\ IsFiniteSet(1 .. tries[r])
          /\ Cardinality(1 .. tries[r]) = IF 1 > tries[r] THEN 0 ELSE tries[r] - 1 + 1
      BY <3>1, FS_Interval
    <3> QED
      BY <2>1, <3>2
  <2>4. IsFiniteSet(Copies(r)) /\ Cardinality(Copies(r)) <= tries[r]
    BY <2>2, <2>3, FS_Subset
  <2>5. Cardinality(Copies(r)) \in Nat
    BY <2>4, FS_CardinalityType
  <2> QED
    BY <2>1, <2>4, <2>5
<1> QED
  BY <1>1, Serial, Invariance, PTL

\* DONE and FAILED are the last phases published for a request, across reruns
\* and the forwarding tasks of cancelled downloads.
THEOREM FinalPhase ==
    ASSUME CancelLag < Slack
    PROVE  Spec => FinalPhaseIsLast
<1>1. Inv /\ SerialInv /\ [Next]_vars =>
        [\A r \in Request :
           published[r] \in {"done", "failed"} => published'[r] = published[r]]_vars
  BY PhaseStep DEF SerialInv
<1> QED
  BY <1>1, Serial, Invariance, PTL DEF Spec, FinalPhaseIsLast

-----------------------------------------------------------------------------
(***************************************************************************)
(* DownloadLifecycle implements RequestContract, unless an enqueue that    *)
(* raises may have put the job on the queue all the same.                  *)
(***************************************************************************)
\* What the contract sees of the uploads and the notices changes only with them.
LEMMA MappedSame ==
    /\ upload' = upload => Sent' = Sent /\ Received' = Received
    /\ notices' = notices => Told' = Told
  BY DEF Sent, Received, Told, Copies

\* One more notice puts the request among those the user was told of.
LEMMA ToldAdds ==
    ASSUME notices \in [Request -> Nat], NEW r \in Request,
           notices' = [notices EXCEPT ![r] = @ + 1]
    PROVE  Told' = Told \cup {r}
<1>1. \A q \in Request : notices'[q] = IF q = r THEN notices[q] + 1 ELSE notices[q]
  OBVIOUS
<1>2. \A q \in Request : notices'[q] > 0 <=> notices[q] > 0 \/ q = r
  BY <1>1
<1> QED
  BY <1>2 DEF Told

\* A file that is handed over puts the request among those sent, and has not
\* arrived yet.
LEMMA SentAdds ==
    ASSUME Inv, NEW r \in Request, NEW k \in Try, upload[r][k] = "none",
           upload' = [upload EXCEPT ![r][k] = "flying"]
    PROVE  Sent' = Sent \cup {r} /\ Received' = Received
<1>1. \A q \in Request :
        (\E l \in Try : upload'[q][l] # "none")
            <=> (\E l \in Try : upload[q][l] # "none") \/ q = r
  BY DEF Inv, CoreInv, TypeOK
<1>2. \A q \in Request, l \in Try :
        upload'[q][l] = "arrived" <=> upload[q][l] = "arrived"
  BY DEF Inv, CoreInv, TypeOK
<1> QED
  BY <1>1, <1>2 DEF Sent, Received, Copies

\* A file that arrives was sent.
LEMMA ReceivedAdds ==
    ASSUME Inv, NEW r \in Request, NEW k \in Try, upload[r][k] = "flying",
           upload' = [upload EXCEPT ![r][k] = "arrived"]
    PROVE  Sent' = Sent /\ Received' = Received \cup {r} /\ r \in Sent
<1>1. \A q \in Request, l \in Try :
        upload'[q][l] # "none" <=> upload[q][l] # "none"
  BY DEF Inv, CoreInv, TypeOK
<1>2. \A q \in Request :
        (\E l \in Try : upload'[q][l] = "arrived")
            <=> (\E l \in Try : upload[q][l] = "arrived") \/ q = r
  BY DEF Inv, CoreInv, TypeOK
<1> QED
  BY <1>1, <1>2 DEF Sent, Received, Copies

\* A step that only moves an attempt, to a place the side conditions do not
\* speak of, keeps them.
LEMMA MoveKeepsContract ==
    ASSUME Inv, ContractInv, NEW r \in Request, NEW k \in Try, NEW p \in PC,
           pc' = [pc EXCEPT ![r][k] = p],
           p \notin {"marked", "telling"},
           UNCHANGED <<status, bot, job, reaped>>
    PROVE  ContractInv'
  BY DEF Inv, CoreInv, TypeOK, ContractInv, Doubtful

\* Every step keeps the contract's side conditions.
LEMMA ContractInvStep ==
    ASSUME "unsure" \notin EnqueueFaults, Inv, ContractInv, [Next]_vars
    PROVE  ContractInv'
<1> USE DEF Inv, CoreInv, TypeOK, ContractInv, Doubtful, GoTo, Write
<1>1. ASSUME NEW r \in Request, BotStep(r)
      PROVE  ContractInv'
  <2>0. job[r] = "none" => \A k \in Try : pc[r][k] = "none"
    BY DEF OriginInv, Try
  <2>1. CASE Create(r)
    BY <2>0, <2>1 DEF Create, OriginInv, ToldInv
  <2>2. CASE EnqueueDownload(r)
    BY <2>2 DEF EnqueueDownload
  <2>3. CASE EnqueueRaises(r)
    BY <2>3 DEF EnqueueRaises, OriginInv
  <2>4. CASE EnqueueFailed(r)
    BY <2>4 DEF EnqueueFailed
  <2>5. CASE BotDies(r)
    BY <2>5 DEF BotDies
  <2> QED
    BY <1>1, <2>1, <2>2, <2>3, <2>4, <2>5 DEF BotStep
<1>2. ASSUME NEW r \in Request, NEW k \in Try, Attempt(r, k)
      PROVE  ContractInv'
  <2>1. CASE \/ LoadRequest(r, k) \/ RefuseLowDisk(r, k) \/ StartDownload(r, k)
             \/ DownloadReturns(r, k) \/ DownloadFails(r, k)
    <3>1. \E p \in PC : /\ pc' = [pc EXCEPT ![r][k] = p]
                         /\ p \notin {"marked", "telling"}
      BY <2>1 DEF LoadRequest, RefuseLowDisk, StartDownload, DownloadReturns,
                  DownloadFails
    <3>2. UNCHANGED <<status, bot, job, reaped>>
      BY <2>1 DEF LoadRequest, RefuseLowDisk, StartDownload, DownloadReturns,
                  DownloadFails
    <3> QED
      BY <3>1, <3>2, MoveKeepsContract
  <2>2. CASE MarkCorrupted(r, k)
    BY <2>2 DEF MarkCorrupted
  <2>3. CASE ClaimForProcessing(r, k)
    <3>1. CASE status[r] \in Active
      <4>1. /\ status' = [status EXCEPT ![r] = "processing"]
            /\ pc' = [pc EXCEPT ![r][k] = "claimed"]
            /\ UNCHANGED <<bot, job, reaped>>
        BY <2>3, <3>1 DEF ClaimForProcessing
      <4> QED
        BY <3>1, <4>1
    <3>2. CASE status[r] \notin Active
      <4>1. /\ pc' = [pc EXCEPT ![r][k] = "ended"]
            /\ UNCHANGED <<status, bot, job, reaped>>
        BY <2>3, <3>2 DEF ClaimForProcessing
      <4> QED
        BY <4>1, MoveKeepsContract
    <3> QED
      BY <3>1, <3>2
  <2>4. CASE OnProgress(r, k)
    <3>1. CASE UNCHANGED pc
      BY <2>4, <3>1 DEF OnProgress
    <3>2. CASE pc' = [pc EXCEPT ![r][k] = "poisoned"]
      BY <2>4, <3>2, MoveKeepsContract DEF OnProgress
    <3> QED
      BY <2>4, <3>1, <3>2 DEF OnProgress
  <2>5. CASE PublishUploading(r, k) \/ PublishDone(r, k)
    <3>1. PICK p \in {"uploading", "releasing"} : pc' = [pc EXCEPT ![r][k] = p]
      BY <2>5 DEF PublishUploading, PublishDone
    <3>2. UNCHANGED <<status, bot, job, reaped>>
      BY <2>5 DEF PublishUploading, PublishDone
    <3> QED
      BY <3>1, <3>2, MoveKeepsContract
  <2>6. CASE PublishFailed(r, k)
    <3>1. /\ pc[r][k] = "marked"
          /\ pc' = [pc EXCEPT ![r][k] = "telling"]
          /\ UNCHANGED <<status, bot, job, reaped>>
      BY <2>6 DEF PublishFailed
    <3> QED
      BY <3>1
  <2>7. CASE SendFile(r, k) \/ SendFileReturns(r, k) \/ SendFileRaises(r, k)
    <3>1. PICK p \in {"sent", "delivered", "failing"} : pc' = [pc EXCEPT ![r][k] = p]
      BY <2>7 DEF SendFile, SendFileReturns, SendFileRaises
    <3>2. UNCHANGED <<status, bot, job, reaped>>
      BY <2>7 DEF SendFile, SendFileReturns, SendFileRaises
    <3> QED
      BY <3>1, <3>2, MoveKeepsContract
  <2>8. CASE UpdateDone(r, k)
    <3>1. r \notin reaped
      BY <2>8 DEF UpdateDone, ToldInv
    <3>2. \A l \in Try : pc'[r][l] \notin {"marked", "telling"}
      BY <2>8 DEF UpdateDone, LeaseInv
    <3> QED
      BY <2>8, <3>1, <3>2 DEF UpdateDone
  <2>9. CASE UpdateFailed(r, k)
    BY <2>9 DEF UpdateFailed
  <2>10. CASE \/ SendText(r, k) \/ Escape(r, k) \/ JobTimesOut(r, k)
              \/ DrainEnds(r, k) \/ Release(r, k)
    <3>1. \E p \in {"ended", "releasing", "draining"} :
            pc' = [pc EXCEPT ![r][k] = p]
      BY <2>10 DEF SendText, Escape, JobTimesOut, DrainEnds, Release,
                   Cancelled, Finally
    <3>2. UNCHANGED <<status, bot, job, reaped>>
      BY <2>10 DEF SendText, Escape, JobTimesOut, DrainEnds, Release
    <3>3. PICK p \in {"ended", "releasing", "draining"} :
            pc' = [pc EXCEPT ![r][k] = p]
      BY <3>1
    <3>4. p \in PC /\ p \notin {"marked", "telling"}
      BY <3>3
    <3> HIDE DEF Inv, ContractInv
    <3> QED
      BY <3>2, <3>3, <3>4, MoveKeepsContract
  <2>11. CASE FinishJob(r, k)
    BY <2>11, AttemptHasJob DEF FinishJob
  <2> QED
    BY <1>2, <2>1, <2>2, <2>3, <2>4, <2>5, <2>6, <2>7, <2>8, <2>9,
       <2>10, <2>11 DEF Attempt
<1>3. ASSUME NEW r \in Request, StartJob(r)
      PROVE  ContractInv'
  <2>1. tries[r] + 1 \in Try
    BY <1>3 DEF StartJob, Try
  <2> QED
    BY <1>3, <2>1 DEF StartJob
<1>4. ASSUME NEW r \in Request, GiveUp(r) \/ NotifyStale(r)
      PROVE  ContractInv'
  BY <1>4 DEF GiveUp, NotifyStale, Startable
<1>5. CASE FailStale
  BY <1>5 DEF FailStale, Batches, Stale
<1>6. CASE \/ Crash \/ ShutdownEnds \/ Restart \/ Tick
           \/ \E r \in Request, k \in Try : Arrive(r, k)
  BY <1>6 DEF Crash, ShutdownEnds, Restart, Tick, Arrive
<1>7. CASE Shutdown
  BY <1>7 DEF Shutdown, Cancelled, Finally
<1>8. CASE UNCHANGED vars
  BY <1>8 DEF vars
<1> QED
  BY <1>1, <1>2, <1>3, <1>4, <1>5, <1>6, <1>7, <1>8 DEF Next

-----------------------------------------------------------------------------
\* Every step is a step of the contract, or changes nothing the contract
\* speaks of.
LEMMA StepSimulation ==
    ASSUME "unsure" \notin EnqueueFaults, Inv, ContractInv, [Next]_vars
    PROVE  [Contract!Next]_(Contract!vars)
<1> DEFINE Same == UNCHANGED <<status, upload, notices>>
<1> USE DEF Inv, CoreInv, TypeOK, Write
<1>0. Same => UNCHANGED Contract!vars
  BY MappedSame DEF Contract!vars
<1>f. ASSUME NEW r \in Request, status[r] \in Active \cup {"failed"},
             status' = [status EXCEPT ![r] = "failed"],
             UNCHANGED <<upload, notices>>
      PROVE  [Contract!Next]_(Contract!vars)
  <2>1. CASE status[r] \in Active
    <3>1. {r} \in SUBSET {q \in Request : status[q] \in {"pending", "processing"}}
      BY <2>1
    <3>2. status' = [q \in Request |-> IF q \in {r} THEN "failed" ELSE status[q]]
      BY <1>f
    <3>3. UNCHANGED <<upload, notices>>
      BY <1>f
    <3>4. Contract!Fail
      BY <3>1, <3>2, <3>3, MappedSame DEF Contract!Fail
    <3> QED
      BY <3>4 DEF Contract!Next
  <2>2. CASE status[r] = "failed"
    <3>1. \A q \in Request : status'[q] = status[q]
      BY <1>f, <2>2
    <3>2. status' = [q \in Request |-> status[q]]
      BY <1>f, <3>1
    <3>3. status' = status
      BY <3>2
    <3> QED
      BY <1>f, <3>3, <1>0
  <2> QED
    BY <1>f, <2>1, <2>2
<1>1. ASSUME NEW r \in Request, BotStep(r)
      PROVE  [Contract!Next]_(Contract!vars)
  <2>1. CASE Create(r)
    <3>1. /\ status[r] = "absent" /\ status' = [status EXCEPT ![r] = "pending"]
          /\ UNCHANGED <<upload, notices>>
      BY <2>1 DEF Create, OriginInv
    <3> QED
      BY <3>1, MappedSame DEF Contract!Next, Contract!Accept
  <2>2. CASE EnqueueDownload(r) \/ EnqueueRaises(r) \/ BotDies(r)
    BY <2>2, <1>0 DEF EnqueueDownload, EnqueueRaises, BotDies
  <2>3. CASE EnqueueFailed(r)
    <3>1. status[r] \in Active \cup {"failed"}
      BY <2>3 DEF EnqueueFailed, OriginInv, ContractInv, Doubtful
    <3> QED
      BY <2>3, <3>1, <1>f DEF EnqueueFailed
  <2> QED
    BY <1>1, <2>1, <2>2, <2>3 DEF BotStep
<1>2. ASSUME NEW r \in Request, NEW k \in Try, Attempt(r, k)
      PROVE  [Contract!Next]_(Contract!vars)
  <2>0. CASE Same
    BY <2>0, <1>0
  <2>1. CASE MarkCorrupted(r, k)
    <3>1. status[r] \in Active \cup {"failed"}
      BY <2>1, AttemptHasJob DEF MarkCorrupted, PathInv, OriginInv, ContractInv
    <3> QED
      BY <2>1, <3>1, <1>f DEF MarkCorrupted
  <2>2. CASE ClaimForProcessing(r, k)
    <3>1. CASE status[r] = "pending"
      <4>1. /\ status' = [status EXCEPT ![r] = "processing"]
            /\ UNCHANGED <<upload, notices>>
        BY <2>2, <3>1 DEF ClaimForProcessing
      <4> QED
        BY <3>1, <4>1, MappedSame DEF Contract!Next, Contract!Claim
    <3>2. CASE status[r] # "pending"
      BY <2>2, <3>2, <1>0 DEF ClaimForProcessing
    <3> QED
      BY <3>1, <3>2
  <2>3. CASE SendFile(r, k)
    <3>1. status[r] = "processing" /\ notices[r] = 0
      BY <2>3, AttemptHasJob DEF SendFile, ClaimHolds, ToldInv, ContractInv,
                                 Doubtful
    <3>2. upload[r][k] = "none" /\ upload' = [upload EXCEPT ![r][k] = "flying"]
      BY <2>3 DEF SendFile, UploadInv, BeforeUpload
    <3>3. r \notin Told
      BY <3>1 DEF Told
    <3>4. UNCHANGED <<status, notices>>
      BY <2>3 DEF SendFile
    <3>5. Contract!Deliver(r)
      BY <3>1, <3>2, <3>3, <3>4, SentAdds, MappedSame DEF Contract!Deliver
    <3> QED
      BY <3>5 DEF Contract!Next
  <2>4. CASE UpdateDone(r, k)
    <3>1. status[r] = "processing" /\ upload[r][k] = "arrived"
      BY <2>4, AttemptHasJob DEF UpdateDone, ClaimHolds, ContractInv, Doubtful,
                                 UploadInv
    <3>2. r \in Received
      BY <3>1 DEF Received, Copies
    <3>3. /\ status' = [status EXCEPT ![r] = "done"]
          /\ UNCHANGED <<upload, notices>>
      BY <2>4 DEF UpdateDone
    <3> QED
      BY <3>1, <3>2, <3>3, MappedSame DEF Contract!Next, Contract!Succeed
  <2>5. CASE UpdateFailed(r, k)
    <3>1. status[r] = "processing"
      BY <2>5, AttemptHasJob DEF UpdateFailed, ClaimHolds, ContractInv, Doubtful
    <3> QED
      BY <2>5, <3>1, <1>f DEF UpdateFailed
  <2>6. CASE SendText(r, k)
    <3>1. status[r] = "failed"
      BY <2>6 DEF SendText, ContractInv
    <3>2. CASE notices' = [notices EXCEPT ![r] = @ + 1]
      <4>1. UNCHANGED <<status, upload>>
        BY <2>6 DEF SendText
      <4>2. Contract!Tell(r)
        BY <3>1, <3>2, <4>1, ToldAdds, MappedSame DEF Contract!Tell
      <4> QED
        BY <4>2 DEF Contract!Next
    <3>3. CASE notices' = [notices EXCEPT ![r] = @ + 0]
      <4>1. notices' = notices
        BY <3>3
      <4> QED
        BY <2>6, <4>1, <1>0 DEF SendText
    <3> QED
      BY <2>6, <3>2, <3>3 DEF SendText
  <2> QED
    BY <1>2, <2>0, <2>1, <2>2, <2>3, <2>4, <2>5, <2>6
       DEF Attempt, LoadRequest, RefuseLowDisk, StartDownload, OnProgress,
           DownloadReturns, DownloadFails, PublishUploading, SendFileReturns,
           SendFileRaises, PublishDone, PublishFailed, Escape, JobTimesOut, DrainEnds, Release, FinishJob
<1>3. ASSUME NEW r \in Request, NotifyStale(r)
      PROVE  [Contract!Next]_(Contract!vars)
  <2>1. status[r] = "failed"
    BY <1>3 DEF NotifyStale, ContractInv
  <2>2. CASE notices' = [notices EXCEPT ![r] = @ + 1]
    <3>1. UNCHANGED <<status, upload>>
      BY <1>3 DEF NotifyStale
    <3>2. Contract!Tell(r)
      BY <2>1, <2>2, <3>1, ToldAdds, MappedSame DEF Contract!Tell
    <3> QED
      BY <3>2 DEF Contract!Next
  <2>3. CASE notices' = [notices EXCEPT ![r] = @ + 0]
    <3>1. notices' = notices
      BY <2>3
    <3> QED
      BY <1>3, <3>1, <1>0 DEF NotifyStale
  <2> QED
    BY <1>3, <2>2, <2>3 DEF NotifyStale
<1>4. CASE FailStale
  <2>1. PICK S \in Batches :
          status' = [r \in Request |-> IF r \in S THEN "failed" ELSE status[r]]
    BY <1>4 DEF FailStale
  <2>2. S \in SUBSET {r \in Request : status[r] \in {"pending", "processing"}}
    BY DEF Batches, Stale
  <2>3. UNCHANGED <<upload, notices>>
    BY <1>4 DEF FailStale
  <2>4. Contract!Fail
    BY <2>1, <2>2, <2>3, MappedSame DEF Contract!Fail
  <2> QED
    BY <2>4 DEF Contract!Next
<1>5. CASE \/ \E r \in Request : StartJob(r) \/ GiveUp(r)
           \/ Crash \/ Shutdown \/ ShutdownEnds \/ Restart \/ Tick
           \/ UNCHANGED vars
  BY <1>5, <1>0 DEF StartJob, GiveUp, Crash, Shutdown, ShutdownEnds, Restart,
                    Tick, vars
<1>6. ASSUME NEW r \in Request, NEW k \in Try, Arrive(r, k)
      PROVE  [Contract!Next]_(Contract!vars)
  <2>1. upload[r][k] = "flying" /\ upload' = [upload EXCEPT ![r][k] = "arrived"]
    BY <1>6 DEF Arrive
  <2>2. UNCHANGED <<status, notices>>
    BY <1>6 DEF Arrive
  <2>3. Contract!Arrive(r)
    BY <2>1, <2>2, ReceivedAdds, MappedSame DEF Contract!Arrive
  <2> QED
    BY <2>3 DEF Contract!Next
<1> QED
  BY <1>1, <1>2, <1>3, <1>4, <1>5, <1>6 DEF Next

\* The life of a request, with its queue, retries, crashes, timeouts and
\* reaper, keeps the contract its user sees, for every value of the
\* constants that leaves no enqueue in doubt.
THEOREM Refinement ==
    ASSUME "unsure" \notin EnqueueFaults
    PROVE  Spec => KeepsContract
<1>1. Init => Contract!Init
  BY DEF Init, Contract!Init, Sent, Received, Copies, Told
<1>2. Init => ContractInv
  BY DEF Init, ContractInv, Doubtful
<1>3. Inv /\ ContractInv /\ [Next]_vars => ContractInv'
  BY ContractInvStep
<1>4. Inv /\ ContractInv /\ [Next]_vars => [Contract!Next]_(Contract!vars)
  BY StepSimulation
<1> QED
  BY <1>1, <1>2, <1>3, <1>4, Invariance, PTL
     DEF Spec, KeepsContract, Contract!Spec

\* A step that writes the row or sends a file is of the bot that is not through,
\* of an attempt, which has a job, or of the reaper, which takes active rows.
LEMMA EnqueueErrorStep ==
    ASSUME Inv, ContractInv, EnqueueErrorIsFinal, Next
    PROVE  EnqueueErrorIsFinal'
<1> USE DEF Inv, CoreInv, TypeOK, ContractInv, Doubtful, EnqueueErrorIsFinal
<1>0. \A r \in Request : job[r] = "none" => \A k \in Try : upload[r][k] = "none"
  BY DEF OriginInv, UploadInv, Try
<1>1. ASSUME NEW r \in Request, BotStep(r)
      PROVE  EnqueueErrorIsFinal'
  <2>1. CASE Create(r)
    BY <2>1 DEF Create, Write
  <2>2. CASE EnqueueDownload(r) \/ BotDies(r)
    BY <2>2 DEF EnqueueDownload, BotDies
  <2>3. CASE EnqueueRaises(r)
    BY <2>3 DEF EnqueueRaises
  <2>4. CASE EnqueueFailed(r)
    BY <1>0, <2>4 DEF EnqueueFailed, Write
  <2> QED
    BY <1>1, <2>1, <2>2, <2>3, <2>4 DEF BotStep
<1>2. ASSUME NEW r \in Request, NEW k \in Try, Attempt(r, k)
      PROVE  EnqueueErrorIsFinal'
  <2>1. /\ bot' = bot
        /\ \A q \in Request : q # r => /\ status'[q] = status[q]
                                       /\ upload'[q] = upload[q]
    BY <1>2
       DEF Attempt, LoadRequest, MarkCorrupted, ClaimForProcessing,
           RefuseLowDisk, StartDownload, OnProgress, DownloadReturns,
           DownloadFails, PublishUploading, SendFile, SendFileReturns,
           SendFileRaises, UpdateDone, PublishDone, UpdateFailed,
           PublishFailed, SendText, Escape, JobTimesOut, DrainEnds, Release, FinishJob, Write
  <2>2. pc[r][k] # "none"
    BY <1>2
       DEF Attempt, LoadRequest, MarkCorrupted, ClaimForProcessing,
           RefuseLowDisk, StartDownload, OnProgress, DownloadReturns,
           DownloadFails, PublishUploading, SendFile, SendFileReturns,
           SendFileRaises, UpdateDone, PublishDone, UpdateFailed,
           PublishFailed, SendText, Escape, Fallible, JobTimesOut, DrainEnds, Release, FinishJob
  <2>3. job[r] # "none"
    BY <2>2, AttemptHasJob
  <2>4. bot[r] # "raised"
    BY <2>3
  <2> QED
    BY <2>1, <2>4
<1>3. CASE FailStale
  BY <1>3 DEF FailStale, Batches, Stale
<1>4. CASE \E r \in Request : StartJob(r) \/ GiveUp(r) \/ NotifyStale(r)
  BY <1>4 DEF StartJob, GiveUp, Startable, NotifyStale
<1>5. CASE Crash \/ Shutdown \/ ShutdownEnds \/ Restart \/ Tick
  BY <1>5 DEF Crash, Shutdown, ShutdownEnds, Restart, Tick
<1>6. ASSUME NEW r \in Request, NEW k \in Try, Arrive(r, k)
      PROVE  EnqueueErrorIsFinal'
  BY <1>6 DEF Arrive
<1> QED
  BY <1>1, <1>2, <1>3, <1>4, <1>5, <1>6 DEF Next

\* A request that was answered with DownloadEnqueueError is failed, and never
\* revived or sent, when an enqueue that raises has put nothing on the
\* queue.
THEOREM EnqueueErrorStands ==
    ASSUME "unsure" \notin EnqueueFaults
    PROVE  Spec => []EnqueueErrorIsFinal
<1>1. Init => EnqueueErrorIsFinal /\ ContractInv
  BY DEF Init, EnqueueErrorIsFinal, ContractInv, Doubtful
<1>2. Inv /\ ContractInv /\ [Next]_vars => ContractInv'
  BY ContractInvStep
<1>3. Inv /\ ContractInv /\ EnqueueErrorIsFinal /\ [Next]_vars =>
        EnqueueErrorIsFinal'
  <2>1. CASE UNCHANGED vars
    BY <2>1 DEF vars, EnqueueErrorIsFinal
  <2> QED
    BY <2>1, EnqueueErrorStep
<1> QED
  BY <1>1, <1>2, <1>3, Invariance, PTL DEF Spec

=============================================================================
