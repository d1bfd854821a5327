------------------------- MODULE ChildProcessProofs -------------------------
(***************************************************************************)
(* The guarantees of YtDlpDownloader's calls, for every timeout and any    *)
(* number of progress events.                                              *)
(***************************************************************************)
EXTENDS ChildProcess, SequenceTheorems, TLAPS

USE ProcessAssumption

-----------------------------------------------------------------------------
\* The coroutine's variables keep their types, and the call its kind.
LEMMA CallTypeStep ==
    ASSUME PartsInv, [Next]_vars
    PROVE  kind' = kind /\ CallType'
<1> USE DEF PartsInv, TypeOK, CallType
<1>1. CASE UNCHANGED <<kind, callVars>>
  BY <1>1 DEF callVars
<1>2. CASE FutureDone
  BY <1>2 DEF FutureDone, Outcome
<1>3. CASE DrainAwaited
  BY <1>3 DEF DrainAwaited
<1>4. ASSUME NEW why \in {"shutdown", "job_timeout"}, Cancel(why)
      PROVE  kind' = kind /\ CallType'
  BY <1>4 DEF Cancel
<1>5. CASE Tick
  BY <1>5 DEF Tick
<1> QED
  BY <1>1, <1>2, <1>3, <1>4, <1>5
  DEF Next, vars, StartProcess, StartRaises, PollDownload, GetEvent, GetNothing,
      LoopOver, GraceOver, CollectResult, PollPreview, GetReport, ReceiveRest,
      CheckAlive, JoinPreview, StopPreview, Emit, RunFfmpeg, FfmpegEnds, Report,
      Flush, Exit, Obey, Die, DrainItem

\* The thread's variables keep their types.
LEMMA ThreadTypeStep ==
    ASSUME PartsInv, [Next]_vars
    PROVE  ThreadType'
<1> USE DEF PartsInv, TypeOK, ThreadType
<1>a. kind' = kind
  BY CallTypeStep
<1>0. CASE UNCHANGED threadVars
  BY <1>a, <1>0 DEF threadVars, MaxRun
<1>1. CASE StartProcess \/ StartRaises
  BY <1>1 DEF StartProcess, StartRaises, CallType, MaxRun
<1>2. CASE PollDownload \/ GetEvent \/ GetNothing \/ LoopOver \/ GraceOver
  BY <1>2 DEF PollDownload, GetEvent, GetNothing, LoopOver, GraceOver, MaxRun
<1>3. CASE CollectResult
  BY <1>3 DEF CollectResult, MaxRun, ChildType
<1>4. CASE GetReport \/ ReceiveRest
  BY <1>4 DEF GetReport, ReceiveRest, MaxRun, ChildType
<1>5. CASE PollPreview \/ CheckAlive \/ JoinPreview \/ StopPreview
  BY <1>5 DEF PollPreview, CheckAlive, JoinPreview, StopPreview, Terminate,
              MaxRun
<1>6. ASSUME NEW why \in {"shutdown", "job_timeout"}, Cancel(why)
      PROVE  ThreadType'
  BY <1>6 DEF Cancel, MaxRun
<1>7. CASE Tick
  BY <1>7 DEF Tick, MaxRun
<1> QED
  BY <1>0, <1>1, <1>2, <1>3, <1>4, <1>5, <1>6, <1>7
  DEF Next, vars, Emit, RunFfmpeg, FfmpegEnds, Report, Flush, Exit, Obey, Die,
      FutureDone, DrainAwaited, DrainItem

\* The child's variables keep their types.
LEMMA ChildTypeStep ==
    ASSUME PartsInv, [Next]_vars
    PROVE  ChildType'
<1> USE DEF PartsInv, TypeOK, ChildType
<1>0. CASE UNCHANGED childVars
  BY <1>0 DEF childVars
<1>1. CASE StartProcess
  BY <1>1 DEF StartProcess
<1>2. CASE LoopOver \/ CollectResult
  BY <1>2 DEF LoopOver, CollectResult, childVars
<1>3. CASE GetReport \/ ReceiveRest
  BY <1>3 DEF GetReport, ReceiveRest
<1>4. CASE PollPreview \/ JoinPreview \/ StopPreview
  BY <1>4 DEF PollPreview, JoinPreview, StopPreview, Terminate
<1>5. CASE RunFfmpeg \/ FfmpegEnds
  BY <1>5 DEF RunFfmpeg, FfmpegEnds
<1>6. CASE Report
  BY <1>6 DEF Report, Statuses
<1>7. CASE Flush \/ Exit \/ Obey \/ Die
  BY <1>7 DEF Flush, Exit, Obey, Die
<1> QED
  BY <1>0, <1>1, <1>2, <1>3, <1>4, <1>5, <1>6, <1>7
  DEF Next, vars, StartRaises, PollDownload, GetEvent, GetNothing, GraceOver,
      CheckAlive, Emit, FutureDone, DrainAwaited, DrainItem, Cancel, Tick

-----------------------------------------------------------------------------
\* The thread moves on only with what its child allows.
LEMMA ThreadPartStep ==
    ASSUME PartsInv, [Next]_vars
    PROVE  ThreadInv'
<1> USE DEF PartsInv, TypeOK, ThreadType, ChildType, ThreadInv, Running, Alive
<1>a. kind' = kind
  BY CallTypeStep
<1>0. CASE UNCHANGED <<thread, result, child>>
  BY <1>a, <1>0
<1>1. CASE StartProcess \/ StartRaises
  BY <1>1 DEF StartProcess, StartRaises, childVars
<1>2. CASE PollDownload \/ GetEvent \/ GetNothing \/ LoopOver \/ GraceOver
  BY <1>2 DEF PollDownload, GetEvent, GetNothing, LoopOver, GraceOver, childVars
<1>3. CASE CollectResult
  BY <1>3 DEF CollectResult
<1>4. CASE PollPreview \/ ReceiveRest \/ CheckAlive
  BY <1>4 DEF PollPreview, ReceiveRest, CheckAlive, Terminate, childVars
<1>5. CASE GetReport
  BY <1>5 DEF GetReport
<1>6. CASE JoinPreview \/ StopPreview
  BY <1>6 DEF JoinPreview, StopPreview, Terminate
<1>7. CASE Report \/ Exit \/ Obey \/ Die
  BY <1>7 DEF Report, Exit, Obey, Die, threadVars
<1>8. ASSUME NEW why \in {"shutdown", "job_timeout"}, Cancel(why)
      PROVE  ThreadInv'
  BY <1>8 DEF Cancel, childVars
<1> QED
  BY <1>0, <1>1, <1>2, <1>3, <1>4, <1>5, <1>6, <1>7, <1>8
  DEF Next, vars, Emit, RunFfmpeg, FfmpegEnds, Flush, FutureDone, DrainAwaited,
      DrainItem, Tick, threadVars, childVars

\* The report travels from the child to the result and is never replaced.
LEMMA ReportPartStep ==
    ASSUME PartsInv, [Next]_vars
    PROVE  ReportInv'
<1> USE DEF PartsInv, TypeOK, ThreadType, ChildType, ThreadInv, ReportInv,
            Running, Alive, Statuses
<1>a. kind' = kind
  BY CallTypeStep
<1>0. CASE UNCHANGED <<thread, result, child, report, pipe, ffmpeg>>
  BY <1>a, <1>0
<1>1. CASE StartProcess \/ StartRaises
  BY <1>1 DEF StartProcess, StartRaises, childVars
<1>2. CASE PollDownload \/ GetEvent \/ GetNothing \/ LoopOver \/ GraceOver
  BY <1>2 DEF PollDownload, GetEvent, GetNothing, LoopOver, GraceOver, childVars
<1>3. CASE CollectResult
  BY <1>3 DEF CollectResult
<1>4. CASE PollPreview \/ ReceiveRest \/ CheckAlive
  BY <1>4 DEF PollPreview, ReceiveRest, CheckAlive, Terminate, childVars
<1>5. CASE GetReport
  BY <1>5 DEF GetReport
<1>6. CASE JoinPreview \/ StopPreview
  BY <1>6 DEF JoinPreview, StopPreview, Terminate
<1>7. CASE RunFfmpeg \/ FfmpegEnds
  BY <1>7 DEF RunFfmpeg, FfmpegEnds, threadVars
<1>8. CASE Report
  BY <1>8 DEF Report, threadVars
<1>9. CASE Flush \/ Exit \/ Obey \/ Die
  BY <1>9 DEF Flush, Exit, Obey, Die, threadVars
<1>10. ASSUME NEW why \in {"shutdown", "job_timeout"}, Cancel(why)
       PROVE  ReportInv'
  BY <1>10 DEF Cancel, childVars
<1> QED
  BY <1>0, <1>1, <1>2, <1>3, <1>4, <1>5, <1>6, <1>7, <1>8, <1>9, <1>10
  DEF Next, vars, Emit, FutureDone, DrainAwaited, DrainItem, Tick, threadVars,
      childVars

\* Every wait of the thread has an end it knows.
LEMMA ClockPartStep ==
    ASSUME PartsInv, [Next]_vars
    PROVE  ClockInv'
<1> USE DEF PartsInv, TypeOK, ThreadType, ChildType, ThreadInv, ReportInv,
            ClockInv, Running, Alive, Expired, Torn, MaxRun
<1>a. kind' = kind
  BY CallTypeStep
<1>0. CASE UNCHANGED <<thread, result, ran, due, child, pipe>>
  BY <1>a, <1>0
<1>1. CASE StartProcess \/ StartRaises
  BY <1>1 DEF StartProcess, StartRaises, childVars
<1>2. CASE PollDownload \/ GetEvent \/ GetNothing
  BY <1>2 DEF PollDownload, GetEvent, GetNothing, childVars
<1>3. CASE LoopOver \/ GraceOver
  BY <1>3 DEF LoopOver, GraceOver, childVars
<1>4. CASE CollectResult
  BY <1>4 DEF CollectResult, Statuses
<1>5. CASE PollPreview \/ CheckAlive
  BY <1>5 DEF PollPreview, CheckAlive, Terminate, childVars
<1>6. CASE GetReport
  BY <1>6 DEF GetReport, Statuses
<1>7. CASE ReceiveRest
  BY <1>7 DEF ReceiveRest, Statuses
<1>8. CASE JoinPreview
  BY <1>8 DEF JoinPreview, Terminate, Statuses
<1>9. CASE StopPreview
  BY <1>9 DEF StopPreview
<1>10. CASE Report \/ Exit \/ Obey \/ Die
  BY <1>10 DEF Report, Exit, Obey, Die, threadVars
<1>11. CASE Flush
  BY <1>11 DEF Flush, threadVars
<1>12. ASSUME NEW why \in {"shutdown", "job_timeout"}, Cancel(why)
       PROVE  ClockInv'
  BY <1>12 DEF Cancel, childVars
<1>13. CASE Tick
  BY <1>13 DEF Tick, childVars
<1> QED
  BY <1>0, <1>1, <1>2, <1>3, <1>4, <1>5, <1>6, <1>7, <1>8, <1>9, <1>10, <1>11,
     <1>12, <1>13
  DEF Next, vars, Emit, RunFfmpeg, FfmpegEnds, FutureDone, DrainAwaited,
      DrainItem, threadVars, childVars

\* The two clocks run together while the coroutine waits.
LEMMA AgePartStep ==
    ASSUME PartsInv, [Next]_vars
    PROVE  AgeInv'
<1> USE DEF PartsInv, TypeOK, CallType, ThreadType, ChildType, ThreadInv,
            ReportInv, AgeInv, CallerInv, Running, Torn
<1>a. kind' = kind
  BY CallTypeStep
<1>0. CASE UNCHANGED <<thread, caller, age, waited, ran, child, pipe>>
  BY <1>a, <1>0
<1>1. CASE StartProcess \/ StartRaises
  BY <1>1 DEF StartProcess, StartRaises, callVars, ClockInv
<1>2. CASE PollDownload \/ GetEvent \/ GetNothing \/ LoopOver \/ GraceOver
  BY <1>2 DEF PollDownload, GetEvent, GetNothing, LoopOver, GraceOver, callVars,
              childVars
<1>3. CASE CollectResult
  BY <1>3 DEF CollectResult, callVars
<1>4. CASE PollPreview \/ GetReport \/ ReceiveRest \/ CheckAlive \/ JoinPreview
             \/ StopPreview
  BY <1>4 DEF PollPreview, GetReport, ReceiveRest, CheckAlive, JoinPreview,
              StopPreview, Terminate, callVars
<1>5. CASE Report \/ Flush \/ Exit \/ Obey \/ Die
  BY <1>5 DEF Report, Flush, Exit, Obey, Die, Alive, callVars, threadVars
<1>6. CASE FutureDone \/ DrainAwaited
  BY <1>6 DEF FutureDone, DrainAwaited, threadVars
<1>7. ASSUME NEW why \in {"shutdown", "job_timeout"}, Cancel(why)
      PROVE  AgeInv'
  BY <1>7 DEF Cancel, childVars
<1>8. CASE Tick
  BY <1>8 DEF Tick, childVars, ClockInv, MaxRun, Expired
<1> QED
  BY <1>0, <1>1, <1>2, <1>3, <1>4, <1>5, <1>6, <1>7, <1>8
  DEF Next, vars, Emit, RunFfmpeg, FfmpegEnds, DrainItem, callVars, threadVars,
      childVars

\* The outcome of a call is settled with its thread done, and a download is
\* over only when its forwarding task is.
LEMMA CallerPartStep ==
    ASSUME PartsInv, [Next]_vars
    PROVE  CallerInv'
<1> USE DEF PartsInv, TypeOK, CallType, ThreadType, CallerInv
<1>a. kind' = kind
  BY CallTypeStep
<1>b. thread = "done" => thread' = "done" /\ result' = result
  BY DEF Next, vars, StartProcess, StartRaises, PollDownload, GetEvent,
         GetNothing, LoopOver, GraceOver, CollectResult, PollPreview, GetReport,
         ReceiveRest, CheckAlive, JoinPreview, StopPreview, Emit, RunFfmpeg,
         FfmpegEnds, Report, Flush, Exit, Obey, Die, FutureDone, DrainAwaited,
         DrainItem, Cancel, Tick, threadVars
<1>0. CASE UNCHANGED <<caller, out, cancels, drain>>
  BY <1>a, <1>b, <1>0
<1>1. CASE FutureDone
  <2>1. Outcome(result) \notin {"none", "cancelled", "callback_error"}
    BY DEF Outcome
  <2> QED
    BY <1>1, <2>1 DEF FutureDone, threadVars, eventVars, EventInv
<1>2. CASE DrainAwaited
  BY <1>2 DEF DrainAwaited, threadVars, eventVars
<1>3. CASE DrainItem
  BY <1>3 DEF DrainItem, callVars, threadVars
<1>4. ASSUME NEW why \in {"shutdown", "job_timeout"}, Cancel(why)
      PROVE  CallerInv'
  BY <1>4 DEF Cancel
<1>5. CASE Tick
  BY <1>a, <1>b, <1>5 DEF Tick, eventVars
<1> QED
  BY <1>0, <1>1, <1>2, <1>3, <1>4, <1>5
  DEF Next, vars, StartProcess, StartRaises, PollDownload, GetEvent, GetNothing,
      LoopOver, GraceOver, CollectResult, PollPreview, GetReport, ReceiveRest,
      CheckAlive, JoinPreview, StopPreview, Emit, RunFfmpeg, FfmpegEnds, Report,
      Flush, Exit, Obey, Die, callVars, eventVars

\* Only the finally of a download's thread passes STOP on.
LEMMA StoppedStep ==
    ASSUME PartsInv, [Next]_vars, ~LoopOver, ~GraceOver
    PROVE  Stopped' <=> Stopped
<1> USE DEF PartsInv, TypeOK, ThreadType, ChildType, ReportInv, Stopped
<1>a. kind' = kind
  BY CallTypeStep
<1>0. CASE UNCHANGED <<thread, result>>
  BY <1>a, <1>0
<1>1. CASE kind = "preview"
  BY <1>a, <1>1
<1>2. CASE CollectResult
  BY <1>2 DEF CollectResult, Statuses
<1>3. CASE StartProcess \/ StartRaises \/ PollDownload \/ GetEvent \/ GetNothing
  BY <1>3 DEF StartProcess, StartRaises, PollDownload, GetEvent, GetNothing
<1>4. ASSUME NEW why \in {"shutdown", "job_timeout"}, Cancel(why)
      PROVE  Stopped' <=> Stopped
  BY <1>4 DEF Cancel
<1> QED
  BY <1>0, <1>1, <1>2, <1>3, <1>4
  DEF Next, vars, PollPreview, GetReport, ReceiveRest, CheckAlive, JoinPreview,
      StopPreview, Emit, RunFfmpeg, FfmpegEnds, Report, Flush, Exit, Obey, Die,
      FutureDone, DrainAwaited, DrainItem, Tick, threadVars

\* STOP goes to the end of the bridge, where no event follows it.
LEMMA SendStop ==
    ASSUME PartsInv, kind' = kind, ~Stopped, Stopped',
           bridge' = Append(bridge, Stop),
           UNCHANGED <<emitted, progress, sunk, drain, shown>>
    PROVE  EventType' /\ EventInv'
<1> USE DEF PartsInv, TypeOK, EventType, EventInv
<1>1. drain # "ended" /\ sunk - shown \in Nat
  OBVIOUS
<1>2. /\ bridge' \in Seq(0 .. MaxEvents)
      /\ Len(bridge') = Len(bridge) + 1
      /\ \A i \in 1 .. Len(bridge) : bridge'[i] = bridge[i]
      /\ bridge'[Len(bridge) + 1] = Stop
  BY AppendProperties DEF Stop
<1>3. EventType'
  BY <1>2
<1>4. Len(bridge) = sunk - shown
  BY <1>1
<1>5. \A i \in 1 .. Len(bridge') :
        bridge'[i] = IF i <= sunk - shown THEN shown + i ELSE Stop
  BY <1>1, <1>2, <1>4
<1>6. EventInv'
  BY <1>1, <1>2, <1>4, <1>5
<1> QED
  BY <1>3, <1>6

\* The events stay in order: emitted, in the pipe, in the bridge, shown.
LEMMA EventPartStep ==
    ASSUME PartsInv, [Next]_vars
    PROVE  EventType' /\ EventInv'
<1> USE DEF PartsInv, TypeOK, EventType, EventInv
<1>a. kind' = kind
  BY CallTypeStep
<1>b. CASE UNCHANGED eventVars /\ ~LoopOver /\ ~GraceOver
  <2>1. Stopped' <=> Stopped
    BY <1>b, StoppedStep
  <2> QED
    BY <1>a, <1>b, <2>1 DEF eventVars
<1>1. CASE GetEvent
  <2>1. ~Stopped /\ ~Stopped' /\ drain # "ended"
    BY <1>1 DEF GetEvent, Stopped
  <2>2. /\ progress' \in Seq(1 .. MaxEvents)
        /\ Len(progress') = Len(progress) - 1
        /\ \A i \in 1 .. Len(progress') : progress'[i] = progress[i + 1]
        /\ Head(progress) = progress[1] /\ Len(progress) \in Nat \ {0}
        /\ Head(progress) \in 1 .. MaxEvents
    BY <1>1, HeadTailProperties, LenProperties, EmptySeq DEF GetEvent
  <2>3. Head(progress) = sunk + 1
    BY <2>2
  <2>4. /\ bridge' \in Seq(0 .. MaxEvents)
        /\ Len(bridge') = Len(bridge) + 1
        /\ \A i \in 1 .. Len(bridge) : bridge'[i] = bridge[i]
        /\ bridge'[Len(bridge) + 1] = sunk + 1
    BY <1>1, <2>2, <2>3, AppendProperties DEF GetEvent
  <2>5. Len(bridge) = sunk - shown /\ sunk - shown \in Nat
    BY <2>1
  <2>6. sunk' = sunk + 1 /\ UNCHANGED <<kind, emitted, drain, shown>>
    BY <1>1 DEF GetEvent
  <2>7. EventType'
    BY <2>2, <2>3, <2>4, <2>6
  <2>8. \A i \in 1 .. Len(progress') : progress'[i] = sunk' + i
    BY <2>2, <2>6
  <2>9. \A i \in 1 .. Len(bridge') :
          bridge'[i] = IF i <= sunk' - shown' THEN shown' + i ELSE Stop
    <3> SUFFICES ASSUME NEW i \in 1 .. Len(bridge')
                 PROVE  bridge'[i] = shown + i /\ i <= sunk' - shown'
      BY <2>6
    <3>1. CASE i <= Len(bridge)
      <4>1. bridge[i] = shown + i
        BY <2>1, <2>4, <2>5, <3>1
      <4> QED
        BY <2>4, <2>5, <2>6, <3>1, <4>1
    <3>2. CASE i = Len(bridge) + 1
      BY <2>4, <2>5, <2>6, <3>2
    <3> QED
      BY <2>4, <2>5, <3>1, <3>2
  <2>10. kind = "preview" => FALSE
    BY <1>1 DEF GetEvent
  <2>11. sunk' + Len(progress') = emitted' /\ shown' <= sunk'
    <3>1. /\ sunk + Len(progress) = emitted /\ shown <= sunk
          /\ sunk \in Nat /\ shown \in Nat
      OBVIOUS
    <3> HIDE DEF PartsInv
    <3> QED
      BY <2>2, <2>6, <3>1
  <2>12. Len(bridge') = sunk' - shown'
    BY <2>4, <2>5, <2>6
  <2>13. drain' # "ended" /\ (drain' = "none" <=> kind' = "preview")
    BY <2>1, <2>6
  <2> HIDE DEF PartsInv
  <2>14. EventInv'
    BY <2>1, <2>6, <2>8, <2>9, <2>10, <2>11, <2>12, <2>13
  <2> QED
    BY <2>7, <2>14
<1>2. CASE LoopOver
  <2>1. ~Stopped
    BY <1>2 DEF LoopOver, Stopped
  <2>2. CASE Alive
    <3>1. ~Stopped' /\ UNCHANGED eventVars
      BY <1>2, <2>2 DEF LoopOver, Stopped, eventVars
    <3> QED
      BY <1>a, <2>1, <3>1 DEF eventVars
  <2>3. CASE ~Alive
    BY <1>2, <2>1, <2>3, SendStop DEF LoopOver, Stopped
  <2> QED
    BY <2>2, <2>3
<1>3. CASE GraceOver
  BY <1>3, SendStop DEF GraceOver, Stopped
<1>4. CASE Emit
  <2>1. Stopped' <=> Stopped
    BY <1>4 DEF Emit, Stopped, threadVars
  <2>2. /\ progress' \in Seq(1 .. MaxEvents)
        /\ Len(progress') = Len(progress) + 1
        /\ \A i \in 1 .. Len(progress) : progress'[i] = progress[i]
        /\ progress'[Len(progress) + 1] = emitted + 1
        /\ Len(progress) \in Nat
    BY <1>4, AppendProperties, LenProperties DEF Emit
  <2>3. /\ emitted' = emitted + 1 /\ emitted < MaxEvents /\ kind = "download"
        /\ UNCHANGED <<kind, sunk, bridge, drain, shown>>
    BY <1>4 DEF Emit
  <2>4. EventType'
    BY <2>2, <2>3
  <2>5. \A i \in 1 .. Len(progress') : progress'[i] = sunk + i
    <3> SUFFICES ASSUME NEW i \in 1 .. Len(progress')
                 PROVE  progress'[i] = sunk + i
      OBVIOUS
    <3>1. CASE i <= Len(progress)
      BY <2>2, <3>1
    <3>2. CASE i = Len(progress) + 1
      BY <2>2, <3>2
    <3> QED
      BY <2>2, <3>1, <3>2
  <2>6. EventInv'
    BY <2>1, <2>2, <2>3, <2>5
  <2> QED
    BY <2>4, <2>6
<1>5. CASE DrainItem
  <2>1. Stopped' <=> Stopped
    BY <1>5 DEF DrainItem, Stopped, threadVars
  <2>2. /\ bridge' \in Seq(0 .. MaxEvents)
        /\ Len(bridge') = Len(bridge) - 1
        /\ \A i \in 1 .. Len(bridge') : bridge'[i] = bridge[i + 1]
        /\ Head(bridge) = bridge[1] /\ Len(bridge) \in Nat \ {0}
        /\ Head(bridge) \in 0 .. MaxEvents
    BY <1>5, HeadTailProperties, LenProperties, EmptySeq DEF DrainItem
  <2>3. drain = "running" /\ sunk - shown \in Nat
    BY <1>5 DEF DrainItem
  <2>4. bridge[1] = IF 1 <= sunk - shown THEN shown + 1 ELSE Stop
    BY <2>2, <2>3
  <2>5. UNCHANGED <<kind, emitted, progress, sunk>>
    BY <1>5 DEF DrainItem
  <2>6. CASE Head(bridge) = Stop
    <3>1. sunk = shown /\ Stopped /\ Len(bridge) = 1
      BY <2>2, <2>3, <2>4, <2>6 DEF Stop
    <3>2. bridge' = <<>>
      BY <2>2, <3>1, EmptySeq
    <3>3. drain' = "ended" /\ shown' = shown
      BY <1>5, <2>6 DEF DrainItem
    <3> QED
      BY <2>1, <2>2, <2>3, <2>5, <3>1, <3>2, <3>3
  <2>7. CASE Head(bridge) # Stop
    <3>1. shown' = shown + 1 /\ shown < sunk
      BY <1>5, <2>2, <2>3, <2>4, <2>7 DEF DrainItem
    <3>2. drain' \in {"running", "raised"}
      BY <1>5, <2>7 DEF DrainItem
    <3>3. \A i \in 1 .. Len(bridge') :
            bridge'[i] = IF i <= sunk - shown' THEN shown' + i ELSE Stop
      BY <2>2, <2>3, <3>1
    <3>4. EventType'
      BY <2>2, <2>5, <3>1, <3>2
    <3>5. EventInv'
      BY <2>1, <2>2, <2>3, <2>5, <3>1, <3>2, <3>3
    <3> QED
      BY <3>4, <3>5
  <2> QED
    BY <2>6, <2>7
<1>6. ASSUME NEW why \in {"shutdown", "job_timeout"}, Cancel(why)
      PROVE  EventType' /\ EventInv'
  <2>1. Stopped' <=> Stopped
    BY <1>6 DEF Cancel, Stopped
  <2>2. /\ UNCHANGED <<emitted, progress, sunk, bridge, shown>>
        /\ drain' = drain \/ (drain = "running" /\ drain' = "cancelled")
    BY <1>6 DEF Cancel
  <2> QED
    BY <1>a, <2>1, <2>2
<1> QED
  BY <1>b, <1>1, <1>2, <1>3, <1>4, <1>5, <1>6
  DEF Next, vars, StartProcess, StartRaises, PollDownload, GetNothing,
      CollectResult, PollPreview, GetReport, ReceiveRest, CheckAlive,
      JoinPreview, StopPreview, RunFfmpeg, FfmpegEnds, Report, Flush, Exit,
      Obey, Die, FutureDone, DrainAwaited, Tick

-----------------------------------------------------------------------------
\* The parts are inductive together.
LEMMA Parts == Spec => []PartsInv
<1>1. Init => PartsInv
  <2> SUFFICES ASSUME Init PROVE PartsInv
    OBVIOUS
  <2>1. Len(progress) = 0 /\ Len(bridge) = 0
    BY EmptySeq DEF Init
  <2>2. TypeOK
    <3>1. EventType
      BY EmptySeq DEF Init, EventType
    <3>2. CallType /\ ThreadType
      BY DEF Init, CallType, ThreadType, MaxRun
    <3>3. ChildType
      BY DEF Init, ChildType
    <3> QED
      BY <3>1, <3>2, <3>3 DEF Init, TypeOK
  <2>3. ThreadInv /\ ReportInv /\ CallerInv
    BY DEF Init, ThreadInv, ReportInv, CallerInv, Running, Alive, Statuses
  <2>4. ClockInv /\ AgeInv
    BY DEF Init, ClockInv, AgeInv
  <2>5. EventInv
    BY <2>1 DEF Init, EventInv, Stopped
  <2> QED
    BY <2>2, <2>3, <2>4, <2>5 DEF PartsInv
<1>2. PartsInv /\ [Next]_vars => PartsInv'
  BY CallTypeStep, ThreadTypeStep, ChildTypeStep, ThreadPartStep,
     ReportPartStep, ClockPartStep, AgePartStep, CallerPartStep, EventPartStep
  DEF PartsInv, TypeOK
<1> QED
  BY <1>1, <1>2, PTL DEF Spec

\* A started download does not end without STOP, and one that returns by itself
\* has shown every event its thread took from the child; with them the parts of
\* the inductive invariant, for every timeout and number of events.
THEOREM ChildInvariance == Spec => []ChildInv
<1>1. PartsInv => StopBeforeEnd
  <2> SUFFICES ASSUME PartsInv, kind = "download", thread = "done",
                      result # "os_error", drain = "running"
               PROVE  \E i \in DOMAIN bridge : bridge[i] = Stop
    BY DEF StopBeforeEnd, StopComes
  <2> USE DEF PartsInv, TypeOK, EventType, EventInv
  <2>1. /\ Len(bridge) = sunk - shown + 1 /\ sunk - shown \in Nat
        /\ DOMAIN bridge = 1 .. Len(bridge)
    BY LenProperties DEF Stopped
  <2>2. Len(bridge) \in DOMAIN bridge /\ bridge[Len(bridge)] = Stop
    BY <2>1
  <2> QED
    BY <2>2
<1>2. PartsInv => TakenEventsShown
  <2> SUFFICES ASSUME PartsInv, caller = "returned",
                      out \notin {"cancelled", "callback_error"}
               PROVE  /\ shown = sunk /\ bridge = <<>>
                      /\ emitted - shown = Len(progress)
    BY DEF TakenEventsShown
  <2> USE DEF PartsInv, TypeOK, EventType, EventInv
  <2>1. shown = sunk /\ bridge = <<>>
    <3>1. CASE kind = "preview"
      <4>1. sunk = 0 /\ shown = 0
        BY <3>1, LenProperties
      <4>2. Len(bridge) = 0
        BY <3>1, <4>1 DEF Stopped
      <4> QED
        BY <4>1, <4>2, EmptySeq
    <3>2. CASE kind = "download"
      BY <3>2 DEF CallerInv
    <3> QED
      BY <3>1, <3>2
  <2>2. Len(progress) \in Nat
    BY LenProperties
  <2> QED
    BY <2>1, <2>2
<1> QED
  BY <1>1, <1>2, Parts, PTL DEF ChildInv

\* What download() and get_preview() return or raise is what the child
\* reported; a missing report and a timeout are claimed only when they are so.
THEOREM OutcomeFaithful == Spec => []OutcomeIsTheChilds
<1>1. PartsInv => OutcomeIsTheChilds
  BY DEF PartsInv, ReportInv, ClockInv, CallerInv, OutcomeIsTheChilds
<1> QED
  BY <1>1, Parts, PTL

\* A child that has reported or that a preview waited for is gone when the call
\* returns.
THEOREM ChildIsGone == Spec => []ChildGone
<1>1. PartsInv => ChildGone
  <2> SUFFICES ASSUME PartsInv, caller = "returned"
               PROVE  /\ kind = "preview" => ~Alive
                      /\ out \in {"ok", "too_large", "classified", "extraction"}
                           => ~Alive
                      /\ out = "ok" => ~ffmpeg
    BY DEF ChildGone
  <2> USE DEF PartsInv, TypeOK, CallType, CallerInv
  <2>1. kind = "preview" => ~Alive
    BY DEF ThreadInv
  <2>2. ASSUME out \in {"ok", "too_large", "classified", "extraction"}
        PROVE  ~Alive
    <3>1. thread = "done" /\ out = Outcome(result)
      BY <2>2
    <3>2. result # "timeout"
      BY <2>2, <3>1 DEF Outcome
    <3> QED
      BY <3>1, <3>2 DEF ThreadInv
  <2>3. ASSUME out = "ok" PROVE ~ffmpeg
    <3>1. out = Outcome(result)
      BY <2>3
    <3>2. result = "ok"
      BY <2>3, <3>1 DEF Outcome
    <3>3. report # "none"
      BY <3>2 DEF ReportInv, Statuses
    <3> QED
      BY <3>3 DEF ReportInv
  <2> QED
    BY <2>1, <2>2, <2>3
<1> QED
  BY <1>1, Parts, PTL

\* The executor has its thread back by MaxRun and the job timeout of arq is
\* the last resort, with every timeout and grace that leave a margin between
\* the two.
THEOREM TimeoutsAreKept == Spec => []TimeoutsHold
<1>1. PartsInv => ThreadBackInTime
  BY DEF PartsInv, TypeOK, ThreadType, ThreadInv, ClockInv, ThreadBackInTime,
         Running, MaxRun
<1>2. PartsInv => JobTimeoutIsLastResort
  <2> SUFFICES ASSUME PartsInv, age = JobTimeout, caller = "await", ~Torn
               PROVE  waited + MaxRun >= JobTimeout
    BY DEF JobTimeoutIsLastResort
  <2> USE DEF PartsInv, TypeOK, CallType, ThreadType
  <2>1. kind = "download" /\ thread # "queued" /\ thread # "dropped"
    BY DEF AgeInv
  <2>2. age = waited + ran
    BY <2>1 DEF AgeInv
  <2>3. ran <= MaxRun
    BY <1>1, <2>1 DEF ThreadBackInTime, ClockInv, Running, MaxRun
  <2>4. MaxRun \in Nat
    BY DEF MaxRun
  <2> QED
    BY <2>2, <2>3, <2>4
<1> QED
  BY <1>1, <1>2, Parts, PTL DEF TimeoutsHold

\* The callback is not called after download() is over, and until then it gets
\* every event in turn.
THEOREM EventsInTurn == Spec => NoEventAfterReturn
<1>1. PartsInv /\ [Next]_vars =>
        [shown' # shown => caller # "returned" /\ shown' = shown + 1]_vars
  <2> SUFFICES ASSUME PartsInv, [Next]_vars, shown' # shown
               PROVE  caller # "returned" /\ shown' = shown + 1
    OBVIOUS
  <2> USE DEF PartsInv, TypeOK, EventType, EventInv
  <2>1. DrainItem
    BY DEF Next, vars, StartProcess, StartRaises, PollDownload, GetEvent,
           GetNothing, LoopOver, GraceOver, CollectResult, PollPreview,
           GetReport, ReceiveRest, CheckAlive, JoinPreview, StopPreview, Emit,
           RunFfmpeg, FfmpegEnds, Report, Flush, Exit, Obey, Die, FutureDone,
           DrainAwaited, Cancel, Tick, eventVars
  <2>2. caller # "returned"
    BY <2>1 DEF DrainItem, CallerInv
  <2>3. /\ drain = "running" /\ bridge # <<>> /\ Head(bridge) # Stop
        /\ shown' = Head(bridge)
    BY <2>1 DEF DrainItem
  <2>4. Head(bridge) = bridge[1] /\ Len(bridge) \in Nat \ {0}
    BY <2>3, HeadTailProperties, LenProperties, EmptySeq
  <2>5. bridge[1] = IF 1 <= sunk - shown THEN shown + 1 ELSE Stop
    BY <2>3, <2>4
  <2> QED
    BY <2>2, <2>3, <2>4, <2>5
<1> QED
  BY <1>1, Parts, PTL DEF Spec, NoEventAfterReturn

=============================================================================
