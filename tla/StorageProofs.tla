---------------------------- MODULE StorageProofs ----------------------------
(***************************************************************************)
(* The cron takes no file from an attempt that made its directory, for any *)
(* number of requests, crashes, failed removals and passes of the cron.    *)
(***************************************************************************)
EXTENDS Storage, TLAPS

LEMMA InitStorageInv == Init => StorageInv
BY StorageAssumption, EntryAssumption
DEF Init, StorageInv, TypeOK, OwnDirIsYoung, DoomedIsThere, WriterIsAlone,
    StartsAfresh, ReleasedAtTheEnd, Working, Over, MaxAge

\* The steps of the job, its child included.
LEMMA JobStepStorageInv ==
    ASSUME StorageInv, NEW r \in Request, JobStep(r)
    PROVE  StorageInv'
<1> USE StorageAssumption, EntryAssumption
        DEF StorageInv, TypeOK, OwnDirIsYoung, DoomedIsThere, WriterIsAlone,
            StartsAfresh, ReleasedAtTheEnd, Working, Over, MaxAge, jobVars,
            fileVars, cronVars
<1>1. CASE TempDirForRequest(r)
  <2>1. TypeOK' /\ DoomedIsThere'
    BY <1>1 DEF TempDirForRequest
  <2>2. ~dir[r] => doomed # r
    BY <1>1 DEF TempDirForRequest
  <2>3. ASSUME NEW s \in Request, job'[s] \in Working, made'[s]
        PROVE  quiet'[s] <= held'[s] /\ doomed' # s
    <3>1. CASE s = r
      <4>1. ~dir[r]
        BY <1>1, <2>3, <3>1, Zenon DEF TempDirForRequest
      <4>2. quiet'[r] = 0 /\ held'[r] \in Nat /\ doomed' = doomed
        BY <1>1, <4>1 DEF TempDirForRequest
      <4> QED  BY <2>2, <3>1, <4>1, <4>2
    <3>2. CASE s # r
      <4>1. job[s] \in Working /\ made[s] /\ doomed' = doomed
        BY <1>1, <2>3, <3>2 DEF TempDirForRequest
      <4>2. quiet'[s] = quiet[s] /\ held'[s] = held[s]
        BY <1>1, <3>2 DEF TempDirForRequest
      <4> QED  BY <4>1, <4>2
    <3> QED  BY <3>1, <3>2
  <2>4. ReleasedAtTheEnd' /\ WriterIsAlone' /\ StartsAfresh'
    BY <1>1 DEF TempDirForRequest
  <2> QED  BY <2>1, <2>3, <2>4
<1>2. CASE WriteFile(r)
  BY <1>2 DEF WriteFile
<1>3. CASE Upload(r)
  BY <1>3 DEF Upload
<1>4. CASE EndJob(r)
  BY <1>4 DEF EndJob
<1>5. CASE Release(r)
  BY <1>5 DEF Release
<1>6. CASE ReleaseIncomplete(r)
  BY <1>6 DEF ReleaseIncomplete
<1>7. CASE WriteLate(r)
  BY <1>7 DEF WriteLate
<1>8. CASE WriterEnds(r)
  BY <1>8 DEF WriterEnds
<1>9. CASE StartJob(r)
  BY <1>9 DEF StartJob
<1>10. CASE SkipJob(r)
  BY <1>10 DEF SkipJob
<1> QED
  BY <1>1, <1>2, <1>3, <1>4, <1>5, <1>6, <1>7, <1>8, <1>9, <1>10 DEF JobStep

\* The steps of the cron: what an attempt has made is too young for Look.
LEMMA CronStepStorageInv ==
    ASSUME StorageInv, NEW r \in Request, CronStep(r)
    PROVE  StorageInv'
<1> USE StorageAssumption, EntryAssumption
        DEF StorageInv, TypeOK, OwnDirIsYoung, DoomedIsThere, WriterIsAlone,
            StartsAfresh, ReleasedAtTheEnd, Working, Over, MaxAge, jobVars,
            fileVars, cronVars
<1>1. CASE Look(r)
  <2>1. TypeOK' /\ DoomedIsThere'
    BY <1>1 DEF Look
  <2>2. job[r] \in Working /\ made[r] => ~(quiet[r] > scan + MaxAge)
    OBVIOUS
  <2>3. OwnDirIsYoung'
    BY <1>1, <2>2 DEF Look
  <2>4. ReleasedAtTheEnd' /\ WriterIsAlone' /\ StartsAfresh'
    BY <1>1 DEF Look
  <2> QED  BY <2>1, <2>3, <2>4
<1>2. CASE Remove(r)
  BY <1>2 DEF Remove
<1>3. CASE RemoveFails(r)
  <2>1. /\ quiet' \in [Request -> 0 .. (MaxAge + MaxScan + 1)]
        /\ \A s \in Request : quiet'[s] <= quiet[s]
    BY <1>3 DEF RemoveFails
  <2>2. fresh' \in [Request -> BOOLEAN] /\ lost' \subseteq Request
    BY <1>3 DEF RemoveFails
  <2>3. TypeOK' /\ DoomedIsThere'
    BY <1>3, <2>1, <2>2 DEF RemoveFails
  <2>4. OwnDirIsYoung'
    BY <1>3, <2>1 DEF RemoveFails
  <2>5. ReleasedAtTheEnd' /\ WriterIsAlone' /\ StartsAfresh'
    BY <1>3 DEF RemoveFails
  <2> QED  BY <2>3, <2>4, <2>5
<1> QED  BY <1>1, <1>2, <1>3 DEF CronStep

\* The worker and the clock.
LEMMA WorkerStepStorageInv ==
    ASSUME StorageInv, StartScan \/ Crash \/ Restart \/ Tick \/ UNCHANGED vars
    PROVE  StorageInv'
<1> USE StorageAssumption, EntryAssumption
        DEF StorageInv, TypeOK, OwnDirIsYoung, DoomedIsThere, WriterIsAlone,
            StartsAfresh, ReleasedAtTheEnd, Working, Over, MaxAge, jobVars,
            fileVars, cronVars
<1>1. CASE StartScan
  BY <1>1 DEF StartScan
<1>2. CASE Crash
  <2>1. \A r \in Request : job'[r] \in Over \union {"queued"}
    BY <1>2 DEF Crash
  <2>2. job' \in [Request -> Working \union Over \union {"queued"}]
    BY <1>2, <2>1 DEF Crash
  <2>3. writer' \in [Request -> {"none", "running", "ended"}]
    BY <1>2 DEF Crash
  <2>4. stops' \in 0 .. MaxStops
    BY <1>2 DEF Crash
  <2>5. /\ up' \in BOOLEAN /\ todo' = {} /\ doomed' = NoEntry /\ scan' = 0
        /\ UNCHANGED <<failures, tries, held, made, dir, fresh, quiet, lost>>
    BY <1>2, Zenon DEF Crash
  <2>6. OwnDirIsYoung'
    BY <2>1
  <2>7. ReleasedAtTheEnd'
    <3>1. stops' > 0 /\ dir' = dir /\ failures' = failures
      BY <1>2 DEF Crash
    <3>2. \A r \in Request : job'[r] = "released" => job[r] = "released"
      BY <1>2 DEF Crash
    <3>3. \A r \in Request : writer[r] # "none" => writer'[r] # "none"
      BY <1>2 DEF Crash
    <3> QED  BY <3>1, <3>2, <3>3
  <2>8. WriterIsAlone' /\ StartsAfresh'
    BY <1>2 DEF Crash
  <2> QED  BY <2>2, <2>3, <2>4, <2>5, <2>6, <2>7, <2>8
<1>3. CASE Restart
  BY <1>3 DEF Restart
<1>4. CASE Tick
  BY <1>4 DEF Tick, Idle
<1>5. CASE UNCHANGED vars
  BY <1>5 DEF vars
<1> QED  BY <1>1, <1>2, <1>3, <1>4, <1>5

LEMMA NextStorageInv == StorageInv /\ [Next]_vars => StorageInv'
BY JobStepStorageInv, CronStepStorageInv, WorkerStepStorageInv DEF Next

\* The inductive invariant holds in every reachable state: a directory that
\* the present attempt made is no older than the attempt, so the cron, whose
\* threshold exceeds the life of any attempt, has not condemned it.
THEOREM StorageInvariant == Spec => []StorageInv
BY InitStorageInv, NextStorageInv, PTL DEF Spec

\* A file is lost only to a removal, and the removed entry was condemned.
LEMMA NextLiveFilesKept ==
    StorageInv /\ LiveFilesKept /\ [Next]_vars => LiveFilesKept'
<1> SUFFICES ASSUME StorageInv, LiveFilesKept, [Next]_vars
             PROVE  LiveFilesKept'
  OBVIOUS
<1> USE EntryAssumption
        DEF StorageInv, TypeOK, OwnDirIsYoung, StartsAfresh, LiveFilesKept,
            jobVars, fileVars, cronVars
<1>1. ASSUME NEW r \in Request, JobStep(r) PROVE LiveFilesKept'
  <2>1. CASE StartJob(r)
    <3>1. lost' = lost \ {r} /\ \A s \in Request : made'[s] => made[s]
      BY <2>1 DEF StartJob
    <3> QED  BY <3>1
  <2>2. CASE TempDirForRequest(r)
    BY <2>2 DEF TempDirForRequest
  <2>3. CASE ~StartJob(r) /\ ~TempDirForRequest(r)
    BY <1>1, <2>3 DEF JobStep, SkipJob, WriteFile, Upload, EndJob, Release,
                      ReleaseIncomplete, WriteLate, WriterEnds
  <2> QED  BY <2>1, <2>2, <2>3
<1>2. ASSUME NEW r \in Request, CronStep(r) PROVE LiveFilesKept'
  <2>1. CASE Look(r)
    BY <2>1 DEF Look
  <2>2. CASE Remove(r)
    BY <2>2 DEF Remove
  <2>3. CASE RemoveFails(r)
    BY <2>3 DEF RemoveFails
  <2> QED  BY <1>2, <2>1, <2>2, <2>3 DEF CronStep
<1>3. CASE StartScan \/ Crash \/ Restart \/ Tick \/ UNCHANGED vars
  BY <1>3 DEF StartScan, Crash, Restart, Tick, vars
<1> QED  BY <1>1, <1>2, <1>3 DEF Next

\* LiveFilesKept, for every number of requests, tries, crashes and failed
\* removals and whatever the job timeout, given only that a cancelled job lets
\* go of its directory within the grace: the cron of cleanup_expired takes no
\* file from an attempt that made its directory.
THEOREM CronSparesLiveFiles == Spec => []LiveFilesKept
<1>1. Init => LiveFilesKept
  BY DEF Init, LiveFilesKept
<1> QED  BY <1>1, StorageInvariant, NextLiveFilesKept, PTL DEF Spec
=============================================================================
