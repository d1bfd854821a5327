------------------------- MODULE ProgressCardProofs -------------------------
(***************************************************************************)
(* Proofs about ProgressCard, for every set of requests, every backlog,    *)
(* throttle and number of runs and restarts, and whatever is lost.         *)
(*                                                                         *)
(* ProgressInv is inductive.  What a step does to it is one of three       *)
(* things: it adds an event of a request that has not ended (SendKeeps),   *)
(* takes the first event away (HandleKeeps), or forgets them all.          *)
(***************************************************************************)
EXTENDS ProgressCard, SequenceTheorems, TLAPS

USE ProgressAssumption
USE DEF Final, Phase, OneShot, NoPercent

\* Before the first event everything is at rest.
LEMMA InitKeeps == Init => ProgressInv
  BY DEF Init, ProgressInv, TypeOK, OrderInv, ThrottleStateReleased, Arriving,
         NoState

\* A request whose job goes on has no terminal event under way, and neither
\* its card nor the listener knows of one.
LEMMA OpenRequest ==
    ASSUME ProgressInv, NEW r \in Request, job[r] \notin Final
    PROVE  /\ \A i \in DOMAIN channel :
                 channel[i].req = r => channel[i].phase \notin Final
           /\ card[r] \notin Final
           /\ r \notin closed
  BY DEF ProgressInv, OrderInv, Arriving

\* What a publish leaves in the subscription.
LEMMA SendShape ==
    ASSUME channel \in Seq(Event), NEW r \in Request, NEW phase \in Phase,
           NEW percent \in Percent \cup {NoPercent},
           Send(r, phase, percent) \/ UNCHANGED channel
    PROVE  /\ channel' \in Seq(Event)
           /\ \/ channel' = channel
              \/ /\ Len(channel') = Len(channel) + 1
                 /\ channel'[Len(channel')].req = r
                 /\ channel'[Len(channel')].phase = phase
                 /\ \A i \in 1 .. Len(channel) : channel'[i] = channel[i]
<1> DEFINE e == [req |-> r, phase |-> phase, percent |-> percent]
<1>1. e \in Event /\ e.req = r /\ e.phase = phase
  BY DEF Event
<1>2. channel' = channel \/ channel' = Append(channel, e)
  BY DEF Send
<1> HIDE DEF e
<1> QED
  BY <1>1, <1>2, AppendProperties

\* A publish for a request whose job goes on: no event follows a terminal
\* one, and a terminal one ends the job.
LEMMA SendKeeps ==
    ASSUME ProgressInv, NEW r \in Request, NEW phase \in Phase,
           NEW percent \in Percent \cup {NoPercent},
           NEW p \in {"queued", "poisoned", "dead"} \cup Phase,
           Send(r, phase, percent) \/ UNCHANGED channel,
           job[r] \notin Final,
           phase \in Final => p \in Final,
           job' = [job EXCEPT ![r] = p],
           UNCHANGED <<runs, listener, throttle, closed, card, handler, boot>>
    PROVE  ProgressInv'
<1> USE DEF ProgressInv, TypeOK
<1>1. /\ channel' \in Seq(Event)
      /\ \/ channel' = channel
         \/ /\ Len(channel') = Len(channel) + 1
            /\ channel'[Len(channel')].req = r
            /\ channel'[Len(channel')].phase = phase
            /\ \A i \in 1 .. Len(channel) : channel'[i] = channel[i]
  BY SendShape
<1>2. TypeOK' /\ ThrottleStateReleased'
  BY <1>1 DEF ThrottleStateReleased
<1>3. /\ \A i \in DOMAIN channel :
            channel[i].req = r => channel[i].phase \notin Final
      /\ card[r] \notin Final
      /\ r \notin closed
  BY OpenRequest
<1>4. CASE channel' = channel
  <2>1. \A q \in Request : Arriving(q)' => Arriving(q) /\ q # r
    BY <1>3, <1>4 DEF Arriving
  <2> QED
    BY <1>2, <1>3, <1>4, <2>1 DEF OrderInv
<1>5. CASE /\ Len(channel') = Len(channel) + 1
           /\ channel'[Len(channel')].req = r
           /\ channel'[Len(channel')].phase = phase
           /\ \A i \in 1 .. Len(channel) : channel'[i] = channel[i]
  <2>1. DOMAIN channel' = 1 .. Len(channel) + 1 /\ DOMAIN channel = 1 .. Len(channel)
        /\ Len(channel) \in Nat
    BY <1>1, <1>5
  <2>2. \A i, j \in DOMAIN channel' :
           i < j /\ channel'[i].req = channel'[j].req => channel'[i].phase \notin Final
    <3> SUFFICES ASSUME NEW i \in DOMAIN channel', NEW j \in DOMAIN channel',
                        i < j, channel'[i].req = channel'[j].req
                 PROVE  channel'[i].phase \notin Final
      OBVIOUS
    <3>1. i \in DOMAIN channel /\ channel'[i] = channel[i]
      BY <1>5, <2>1
    <3>2. CASE j \in DOMAIN channel
      BY <1>5, <2>1, <3>1, <3>2 DEF OrderInv
    <3>3. CASE j \notin DOMAIN channel
      BY <1>3, <1>5, <2>1, <3>1, <3>3
    <3> QED
      BY <3>2, <3>3
  <2>3. \A q \in Request : Arriving(q)' => job'[q] \in Final
    <3> SUFFICES ASSUME NEW q \in Request, Arriving(q)'
                 PROVE  job'[q] \in Final
      OBVIOUS
    <3>1. PICK i \in DOMAIN channel' : channel'[i].req = q /\ channel'[i].phase \in Final
      BY DEF Arriving
    <3>2. CASE i \in DOMAIN channel
      <4>1. Arriving(q)
        BY <1>5, <2>1, <3>1, <3>2 DEF Arriving
      <4>2. job[q] \in Final
        BY <4>1 DEF OrderInv
      <4> QED
        BY <4>2
    <3>3. CASE i \notin DOMAIN channel
      BY <1>5, <2>1, <3>1, <3>3
    <3> QED
      BY <3>2, <3>3
  <2>4. \A q \in Request : card'[q] \in Final \/ q \in closed' =>
           /\ job'[q] \in Final
           /\ \A i \in DOMAIN channel' : channel'[i].req # q
    <3> SUFFICES ASSUME NEW q \in Request, card[q] \in Final \/ q \in closed
                 PROVE  /\ job'[q] \in Final
                        /\ \A i \in DOMAIN channel' : channel'[i].req # q
      OBVIOUS
    <3>1. q # r /\ job[q] \in Final /\ \A i \in DOMAIN channel : channel[i].req # q
      BY <1>3 DEF OrderInv
    <3>2. job'[q] \in Final
      BY <3>1
    <3>3. ASSUME NEW i \in DOMAIN channel'
          PROVE  channel'[i].req # q
      <4>1. i \in DOMAIN channel \/ i = Len(channel')
        BY <1>5, <2>1
      <4> QED
        BY <1>5, <2>1, <3>1, <4>1
    <3> QED
      BY <3>2, <3>3
  <2> QED
    BY <1>2, <2>2, <2>3, <2>4 DEF OrderInv
<1> QED
  BY <1>1, <1>4, <1>5

\* The worker's steps: each publishes for a job that goes on, or loses it.
LEMMA WorkerKeeps ==
    ASSUME ProgressInv, NEW r \in Request, WorkerStep(r)
    PROVE  ProgressInv'
<1>1. ASSUME NEW percent \in Percent \cup {NoPercent}, OnProgress(r, percent)
      PROVE  ProgressInv'
  <2>1. PICK p \in {"downloading", "poisoned"} : job' = [job EXCEPT ![r] = p]
    BY <1>1 DEF OnProgress, Forward
  <2> QED
    BY <1>1, <2>1, SendKeeps DEF OnProgress, Forward
<1>2. CASE Converting(r)
  <2>1. PICK p \in {"converting", "poisoned"} : job' = [job EXCEPT ![r] = p]
    BY <1>2 DEF Converting, Forward
  <2> QED
    BY <1>2, <2>1, SendKeeps DEF Converting, Forward
<1>3. CASE Uploading(r)
  BY <1>3, SendKeeps DEF Uploading, PublishPhase
<1>4. CASE Done(r)
  BY <1>4, SendKeeps DEF Done, PublishPhase
<1>5. CASE Fail(r)
  BY <1>5, SendKeeps DEF Fail, PublishPhase
<1>6. CASE AttemptLost(r)
  <2>1. /\ job[r] \notin Final
        /\ job' \in {[job EXCEPT ![r] = "queued"], [job EXCEPT ![r] = "dead"]}
        /\ UNCHANGED <<channel, listener, throttle, closed, card, handler, boot>>
    BY <1>6 DEF AttemptLost
  <2>2. runs' \in [Request -> 1 .. MaxRuns]
    <3>1. runs \in [Request -> 1 .. MaxRuns]
      BY DEF ProgressInv, TypeOK
    <3>2. \/ runs[r] < MaxRuns /\ runs' = [runs EXCEPT ![r] = @ + 1]
          \/ runs' = runs
      BY <1>6 DEF AttemptLost
    <3> QED
      BY <3>1, <3>2
  <2>3. TypeOK' /\ ThrottleStateReleased'
    BY <2>1, <2>2 DEF ProgressInv, TypeOK, ThrottleStateReleased
  <2>4. OrderInv'
    BY <2>1, OpenRequest DEF ProgressInv, TypeOK, OrderInv, Arriving
  <2> QED
    BY <2>3, <2>4 DEF ProgressInv
<1> QED
  BY <1>1, <1>2, <1>3, <1>4, <1>5, <1>6 DEF WorkerStep

-----------------------------------------------------------------------------
\* The first event: what it says of its request, and what is left behind it.
LEMMA HeadEvent ==
    ASSUME ProgressInv, channel # <<>>
    PROVE  /\ Head(channel) \in Event
           /\ Head(channel) = channel[1] /\ 1 \in DOMAIN channel
           /\ Tail(channel) \in Seq(Event)
           /\ Head(channel).req \notin closed
           /\ card[Head(channel).req] \notin Final
           /\ \A i \in DOMAIN Tail(channel) :
                 /\ i + 1 \in DOMAIN channel
                 /\ Tail(channel)[i] = channel[i + 1]
                 /\ Head(channel).phase \in Final =>
                        Tail(channel)[i].req # Head(channel).req
<1> USE DEF ProgressInv, TypeOK
<1>1. /\ Head(channel) \in Event /\ Head(channel) = channel[1]
      /\ 1 \in DOMAIN channel /\ Tail(channel) \in Seq(Event)
      /\ \A i \in DOMAIN Tail(channel) : /\ i \in Nat \ {0}
                                         /\ i + 1 \in DOMAIN channel
                                         /\ Tail(channel)[i] = channel[i + 1]
  <2>1. Len(channel) \in Nat \ {0} /\ DOMAIN channel = 1 .. Len(channel)
    BY EmptySeq, LenProperties
  <2>2. /\ Tail(channel) \in Seq(Event) /\ Len(Tail(channel)) = Len(channel) - 1
        /\ \A i \in 1 .. Len(Tail(channel)) : Tail(channel)[i] = channel[i + 1]
    BY HeadTailProperties
  <2>3. DOMAIN Tail(channel) = 1 .. Len(channel) - 1
    BY <2>2, LenProperties
  <2>4. Head(channel) = channel[1] /\ Head(channel) \in Event
    BY <2>1, HeadTailProperties
  <2> QED
    BY <2>1, <2>2, <2>3, <2>4
<1>2. Head(channel).req \in Request
  BY <1>1 DEF Event
<1> QED
  BY <1>1, <1>2 DEF OrderInv

\* Handling an event leaves the events behind it, or none, and closes its
\* request if it is terminal; the card moves to its phase or stays.
LEMMA HandleKeeps ==
    ASSUME ProgressInv, HandleMessage
    PROVE  ProgressInv'
<1> DEFINE e == Head(channel)
           r == e.req
           emit == ShouldEmit(throttle[r], e.percent)
<1>1. /\ e \in Event /\ e = channel[1] /\ 1 \in DOMAIN channel
      /\ Tail(channel) \in Seq(Event)
      /\ r \notin closed /\ card[r] \notin Final
      /\ \A i \in DOMAIN Tail(channel) :
            /\ i + 1 \in DOMAIN channel
            /\ Tail(channel)[i] = channel[i + 1]
            /\ e.phase \in Final => Tail(channel)[i].req # r
  BY HeadEvent DEF HandleMessage
<1>2. /\ throttle' = Throttled(e, emit)
      /\ closed' = IF e.phase \in Final THEN closed \cup {r} ELSE closed
      /\ card' \in {card, [card EXCEPT ![r] = e.phase]}
      /\ channel' \in {Tail(channel), <<>>}
      /\ listener' \in {listener, "ended"}
      /\ UNCHANGED <<job, runs, handler, boot>>
  BY DEF HandleMessage, EditMessage
<1>3. /\ r \in Request /\ e.phase \in Phase
      /\ e.percent \in Percent \cup {NoPercent}
  BY <1>1 DEF Event
<1>4. e.phase \in Final => job[r] \in Final
  BY <1>1, <1>3 DEF ProgressInv, OrderInv, Arriving
<1> HIDE DEF e, r, emit
<1>5. throttle' \in [Request -> Throttle \cup {NoState}]
  <2>1. Emitted(e) \in Throttle
    BY <1>3 DEF Emitted, Throttle
  <2>2. throttle \in [Request -> Throttle \cup {NoState}]
    BY DEF ProgressInv, TypeOK
  <2>3. throttle' \in {[throttle EXCEPT ![r] = NoState],
                       [throttle EXCEPT ![r] = Emitted(e)], throttle}
    BY <1>2 DEF Throttled, r
  <2> QED
    BY <1>3, <2>1, <2>2, <2>3
<1>6. TypeOK'
  <2>1. channel' \in Seq(Event)
    BY <1>1, <1>2, EmptySeq
  <2>2. card' \in [Request -> {"preview", "started"} \cup Phase]
    BY <1>2, <1>3 DEF ProgressInv, TypeOK
  <2>3. closed' \subseteq Request
    BY <1>2, <1>3 DEF ProgressInv, TypeOK
  <2> QED
    BY <1>2, <1>5, <2>1, <2>2, <2>3 DEF ProgressInv, TypeOK
<1>7. ThrottleStateReleased'
  <2> SUFFICES ASSUME NEW q \in closed'
               PROVE  throttle'[q] = NoState
    BY DEF ThrottleStateReleased
  <2>0. throttle \in [Request -> Throttle \cup {NoState}] /\ closed \subseteq Request
    BY DEF ProgressInv, TypeOK
  <2>1. CASE q \in closed
    <3>1. q # r /\ q \in Request /\ throttle[q] = NoState
      BY <1>1, <2>0, <2>1 DEF ProgressInv, ThrottleStateReleased, r
    <3> QED
      BY <1>2, <2>0, <3>1 DEF Throttled, r
  <2>2. CASE q \notin closed
    <3>1. e.phase \in Final /\ q = r
      BY <1>2, <2>2
    <3> QED
      BY <1>2, <1>3, <2>0, <3>1 DEF Throttled, r
  <2> QED
    BY <2>1, <2>2
<1>8. OrderInv'
  <2>1. CASE channel' = <<>>
    BY <1>2, <1>3, <1>4, <2>1 DEF ProgressInv, TypeOK, OrderInv, Arriving
  <2>2. CASE channel' = Tail(channel)
    <3>1. \A i \in DOMAIN channel' : /\ i \in Nat
                                     /\ i + 1 \in DOMAIN channel
                                     /\ channel'[i] = channel[i + 1]
      BY <1>1, <2>2
    <3>2. \A i, j \in DOMAIN channel' :
             i < j /\ channel'[i].req = channel'[j].req =>
                 channel'[i].phase \notin Final
      BY <3>1 DEF ProgressInv, OrderInv
    <3>3. \A q \in Request : Arriving(q)' => job'[q] \in Final
      BY <1>2, <3>1 DEF ProgressInv, OrderInv, Arriving
    <3>4. ASSUME NEW q \in Request, card'[q] \in Final \/ q \in closed'
          PROVE  /\ job'[q] \in Final
                 /\ \A i \in DOMAIN channel' : channel'[i].req # q
      <4>1. CASE card[q] \in Final \/ q \in closed
        BY <1>2, <3>1, <4>1 DEF ProgressInv, OrderInv
      <4>2. CASE ~(card[q] \in Final \/ q \in closed)
        <5>1. q = r /\ e.phase \in Final
          BY <1>2, <1>3, <3>4, <4>2 DEF ProgressInv, TypeOK
        <5> QED
          BY <1>1, <1>2, <1>4, <2>2, <5>1
      <4> QED
        BY <4>1, <4>2
    <3> QED
      BY <3>2, <3>3, <3>4 DEF OrderInv
  <2> QED
    BY <1>2, <2>1, <2>2
<1> QED
  BY <1>6, <1>7, <1>8 DEF ProgressInv

-----------------------------------------------------------------------------
\* The clock of the throttle touches no request without state.
LEMMA TickKeeps ==
    ASSUME ProgressInv, Tick
    PROVE  ProgressInv'
<1>1. throttle' \in [Request -> Throttle \cup {NoState}]
  <2> SUFFICES ASSUME NEW r \in Request
               PROVE  throttle'[r] \in Throttle \cup {NoState}
    BY DEF Tick
  <2>1. throttle[r] \in Throttle \cup {NoState}
    BY DEF ProgressInv, TypeOK
  <2>2. CASE throttle[r] # NoState /\ throttle[r].age < MinInterval
    <3>1. throttle'[r] = [throttle[r] EXCEPT !.age = @ + 1]
      BY <2>2 DEF Tick
    <3> QED
      BY <2>1, <2>2, <3>1 DEF Throttle, NoState
  <2>3. CASE ~(throttle[r] # NoState /\ throttle[r].age < MinInterval)
    <3>1. throttle'[r] = throttle[r]
      BY <2>3 DEF Tick
    <3> QED
      BY <2>1, <3>1
  <2> QED
    BY <2>2, <2>3
<1>2. \A r \in Request : throttle[r] = NoState => throttle'[r] = NoState
  BY DEF Tick
<1> QED
  BY <1>1, <1>2 DEF Tick, ProgressInv, TypeOK, OrderInv, Arriving,
                    ThrottleStateReleased

\* Every step preserves the invariant.
LEMMA NextKeeps == ProgressInv /\ [Next]_vars => ProgressInv'
<1> SUFFICES ASSUME ProgressInv, [Next]_vars
             PROVE  ProgressInv'
  OBVIOUS
<1> USE DEF ProgressInv, TypeOK, OrderInv, ThrottleStateReleased, Arriving
<1>1. ASSUME NEW r \in Request, HandlerEdits(r) \/ HandlerRaises(r)
      PROVE  ProgressInv'
  <2>1. /\ handler' = [handler EXCEPT ![r] = "over"]
        /\ card' \in {card, [card EXCEPT ![r] = "started"]}
        /\ UNCHANGED <<job, runs, channel, listener, throttle, closed, boot>>
    BY <1>1 DEF HandlerEdits, HandlerRaises
  <2>2. \A q \in Request : card'[q] \in Final => card[q] \in Final
    BY <2>1
  <2>3. /\ handler' \in [Request -> {"editing", "over"}]
        /\ card' \in [Request -> {"preview", "started"} \cup Phase]
    <3>1. /\ handler \in [Request -> {"editing", "over"}]
          /\ card \in [Request -> {"preview", "started"} \cup Phase]
      OBVIOUS
    <3> HIDE DEF ProgressInv, TypeOK, Phase
    <3> QED
      BY <2>1, <3>1
  <2>4. TypeOK' /\ ThrottleStateReleased'
    BY <2>1, <2>3
  <2>5. OrderInv'
    BY <2>1, <2>2
  <2> QED
    BY <2>4, <2>5
<1>2. CASE ListenerLosesRedis
  BY <1>2 DEF ListenerLosesRedis
<1>3. CASE BotRestarts
  BY <1>3 DEF BotRestarts
<1>4. CASE UNCHANGED vars
  BY <1>4 DEF vars
<1> QED
  BY <1>1, <1>2, <1>3, <1>4, WorkerKeeps, HandleKeeps, TickKeeps DEF Next

\* Whatever is lost, throttled, refused, rerun or restarted, no event of a
\* request follows its terminal one, and a request that has ended for the
\* listener keeps no throttle state.
THEOREM ProgressInvariance == Spec => []ProgressInv
<1>1. Init => ProgressInv
  BY InitKeeps
<1>2. ProgressInv /\ [Next]_vars => ProgressInv'
  BY NextKeeps
<1> QED
  BY <1>1, <1>2, PTL DEF Spec

\* Only the listener and the enqueueing handler edit a card, and the listener
\* holds no event for a card that is final.
LEMMA FinalCardStep ==
    ASSUME ProgressInv, Next, NEW r \in Request,
           card[r] \in Final, card'[r] # card[r]
    PROVE  handler'[r] # handler[r]
<1>1. CASE HandleMessage
  <2>1. /\ Head(channel) \in Event
        /\ card[Head(channel).req] \notin Final
    BY <1>1, HeadEvent DEF HandleMessage
  <2>2. card' \in {card, [card EXCEPT ![Head(channel).req] = Head(channel).phase]}
    BY <1>1 DEF HandleMessage, EditMessage
  <2> QED
    BY <2>1, <2>2 DEF ProgressInv, TypeOK
<1>2. ASSUME NEW q \in Request, HandlerEdits(q)
      PROVE  handler'[r] # handler[r]
  BY <1>2 DEF HandlerEdits, ProgressInv, TypeOK
<1>3. CASE UNCHANGED card
  BY <1>3
<1> QED
  BY <1>1, <1>2, <1>3
     DEF Next, WorkerStep, OnProgress, Converting, Uploading, Done, Fail,
         AttemptLost, Forward, PublishPhase, HandlerRaises, ListenerLosesRedis,
         Tick, BotRestarts

\* The listener never takes a card out of its final state.
THEOREM FinalCardStays == Spec => ListenerKeepsFinal
<1>1. ProgressInv /\ [Next]_vars =>
        [\A r \in Request :
           card[r] \in Final /\ card'[r] # card[r] => handler'[r] # handler[r]]_vars
  BY FinalCardStep
<1> QED
  BY <1>1, ProgressInvariance, PTL DEF Spec, ListenerKeepsFinal

=============================================================================
