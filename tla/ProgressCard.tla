---------------------------- MODULE ProgressCard ----------------------------
(***************************************************************************)
(* The progress of a request on its card: the worker publishes events to   *)
(* Redis pub/sub, and one listener task in the bot process throttles them  *)
(* and edits the cards, one event at a time and for all requests.  The     *)
(* handler that enqueued the request edits the same card once, to say that *)
(* the download started.                                                   *)
(*                                                                         *)
(* Requests are those whose row can be read, so that a rerun of a request  *)
(* that has ended skips it.  Pub/sub keeps nothing.  Time matters only to  *)
(* the throttle, which compares with its interval: it is kept as the age   *)
(* of the last emitted event.                                              *)
(***************************************************************************)
EXTENDS Integers, Sequences

CONSTANTS
    Request,        \* requests whose jobs are queued
    Percent,        \* percentages yt-dlp reports
    MinInterval,    \* _MIN_INTERVAL_SECONDS
    MinStep,        \* _MIN_PERCENT_STEP
    Troubled,       \* requests whose card Telegram may refuse to edit
    Lossy,          \* whether a publish may fail
    MaxRuns,        \* arq's max_tries: how often a job is run
    MaxBacklog,     \* bound: events published and not yet handled
    MaxBoots        \* bound: how often the bot process is started

ASSUME ProgressAssumption ==
    /\ Percent \subseteq 0 .. 100
    /\ MinInterval \in Nat
    /\ MinStep \in Nat
    /\ Troubled \subseteq Request
    /\ Lossy \in BOOLEAN
    /\ MaxRuns \in Nat \ {0}
    /\ MaxBacklog \in Nat \ {0}
    /\ MaxBoots \in Nat \ {0}

VARIABLES
    job,        \* the phase the worker has reached
    runs,       \* how often the job was run
    channel,    \* what the listener's subscription still holds
    listener,   \* the listener task
    throttle,   \* ProgressThrottler's state per request
    closed,     \* requests whose terminal event the listener has handled
    card,       \* what the card shows
    handler,    \* whether the enqueueing handler has yet to edit the card
    boot        \* how often the bot process was started

vars == <<job, runs, channel, listener, throttle, closed, card, handler, boot>>

NoPercent == -1
Final     == {"done", "failed"}
Phase     == {"downloading", "converting", "uploading"} \cup Final
OneShot   == Phase \ {"downloading"}

Event    == [req : Request, phase : Phase, percent : Percent \cup {NoPercent}]
NoState  == [percent |-> NoPercent, age |-> NoPercent]
Throttle == [percent : Percent \cup {NoPercent}, age : 0 .. MinInterval]

TypeOK ==
    /\ job \in [Request -> {"queued", "poisoned", "dead"} \cup Phase]
    /\ runs \in [Request -> 1 .. MaxRuns]
    /\ channel \in Seq(Event)
    /\ listener \in {"up", "ended"}
    /\ throttle \in [Request -> Throttle \cup {NoState}]
    /\ closed \subseteq Request
    /\ card \in [Request -> {"preview", "started"} \cup Phase]
    /\ handler \in [Request -> {"editing", "over"}]
    /\ boot \in 1 .. MaxBoots

Init ==
    /\ job = [r \in Request |-> "queued"]
    /\ runs = [r \in Request |-> 1]
    /\ channel = <<>>
    /\ listener = "up"
    /\ throttle = [r \in Request |-> NoState]
    /\ closed = {}
    /\ card = [r \in Request |-> "preview"]
    /\ handler = [r \in Request |-> "editing"]
    /\ boot = 1

-----------------------------------------------------------------------------
(***************************************************************************)
(* The worker.  An event published with nobody subscribed is lost.         *)
(***************************************************************************)
Send(r, phase, percent) ==
    /\ Len(channel) < MaxBacklog
    /\ channel' = IF listener = "up"
                  THEN Append(channel, [req |-> r, phase |-> phase,
                                        percent |-> percent])
                  ELSE channel

\* _publish_phase: a publish that raises is ignored.
PublishPhase(r, phase) ==
    /\ Send(r, phase, NoPercent) \/ (Lossy /\ UNCHANGED channel)
    /\ job' = [job EXCEPT ![r] = phase]
    /\ UNCHANGED <<runs, listener, throttle, closed, card, handler, boot>>

\* _on_progress: a publish that raises, sent or not, ends the forwarding, and
\* its exception ends the attempt when the download is over.
Forward(r, phase, percent) ==
    /\ \/ /\ Send(r, phase, percent)
          /\ job' = [job EXCEPT ![r] = phase]
       \/ /\ Lossy
          /\ Send(r, phase, percent) \/ UNCHANGED channel
          /\ job' = [job EXCEPT ![r] = "poisoned"]
    /\ UNCHANGED <<runs, listener, throttle, closed, card, handler, boot>>

\* A bug of OnProgress: the forwarding task is not awaited, so that progress
\* may still be published when the job has ended.
OnProgressDetached(r, percent) ==
    /\ job[r] \in {"queued", "downloading", "done", "failed"}
    /\ Forward(r, "downloading", percent)

OnProgress(r, percent) ==
    /\ job[r] \in {"queued", "downloading"}
    /\ Forward(r, "downloading", percent)

Converting(r) ==
    /\ job[r] \in {"queued", "downloading"}
    /\ Forward(r, "converting", NoPercent)

Uploading(r) ==
    /\ job[r] \in {"queued", "downloading", "converting"}
    /\ PublishPhase(r, "uploading")

Done(r) ==
    /\ job[r] = "uploading"
    /\ PublishPhase(r, "done")

Fail(r) ==
    /\ job[r] \notin Final \cup {"dead", "poisoned"}
    /\ PublishPhase(r, "failed")

\* The attempt is lost: arq runs the job again, or the reaper fails the
\* request in the end, and publishes nothing.
AttemptLost(r) ==
    /\ job[r] \notin Final \cup {"dead"}
    /\ \/ /\ runs[r] < MaxRuns
          /\ runs' = [runs EXCEPT ![r] = @ + 1]
          /\ job' = [job EXCEPT ![r] = "queued"]
       \/ /\ job' = [job EXCEPT ![r] = "dead"]
          /\ UNCHANGED runs
    /\ UNCHANGED <<channel, listener, throttle, closed, card, handler, boot>>

(***************************************************************************)
(* ProgressThrottler.should_emit: the first event of a request, and then   *)
(* those far enough from the last emitted one, in time and, when both have *)
(* a percentage, in percent.                                               *)
(***************************************************************************)
Apart(p, q) == p - q >= MinStep \/ q - p >= MinStep

ShouldEmit(state, percent) ==
    \/ state = NoState
    \/ /\ state.age = MinInterval
       /\ \/ percent = NoPercent
          \/ state.percent = NoPercent
          \/ Apart(percent, state.percent)

Bypasses(phase) == phase \in OneShot

(***************************************************************************)
(* TelegramProgressListener.                                               *)
(***************************************************************************)
\* edit_message_text: done; refused by Telegram, which is logged; or raising
\* anything else, done or not, which ends the task and its subscription.
EditMessage(r, phase) ==
    \/ /\ card' = [card EXCEPT ![r] = phase]
       /\ channel' = Tail(channel)
       /\ UNCHANGED listener
    \/ /\ r \in Troubled
       /\ channel' = Tail(channel)
       /\ UNCHANGED <<card, listener>>
    \/ /\ r \in Troubled
       /\ channel' = <<>>
       /\ listener' = "ended"
       /\ card' \in {card, [card EXCEPT ![r] = phase]}

Emitted(e) == [percent |-> e.percent, age |-> 0]

\* A bug of Throttled: a terminal event leaves the request's state behind.
ThrottledKept(e, emit) ==
    IF Bypasses(e.phase) THEN throttle
    ELSE IF emit THEN [throttle EXCEPT ![e.req] = Emitted(e)]
    ELSE throttle

Throttled(e, emit) ==
    IF e.phase \in Final THEN [throttle EXCEPT ![e.req] = NoState]
    ELSE IF ~ Bypasses(e.phase) /\ emit THEN [throttle EXCEPT ![e.req] = Emitted(e)]
    ELSE throttle

HandleMessage ==
    /\ listener = "up"
    /\ channel # <<>>
    /\ LET e    == Head(channel)
           emit == ShouldEmit(throttle[e.req], e.percent)
       IN  /\ throttle' = Throttled(e, emit)
           /\ closed' = IF e.phase \in Final THEN closed \cup {e.req} ELSE closed
           /\ \/ /\ Bypasses(e.phase) \/ emit
                 /\ EditMessage(e.req, e.phase)
              \/ /\ ~ Bypasses(e.phase) /\ ~ emit
                 /\ channel' = Tail(channel)
                 /\ UNCHANGED <<card, listener>>
    /\ UNCHANGED <<job, runs, handler, boot>>

\* pubsub.listen raises, and with it the task.
ListenerLosesRedis ==
    /\ Lossy
    /\ listener = "up"
    /\ listener' = "ended"
    /\ channel' = <<>>
    /\ UNCHANGED <<job, runs, throttle, closed, card, handler, boot>>

\* The last edit of handle_confirm_download, or its failure.
HandlerEdits(r) ==
    /\ handler[r] = "editing"
    /\ handler' = [handler EXCEPT ![r] = "over"]
    /\ card' = [card EXCEPT ![r] = "started"]
    /\ UNCHANGED <<job, runs, channel, listener, throttle, closed, boot>>

HandlerRaises(r) ==
    /\ handler[r] = "editing"
    /\ r \in Troubled
    /\ handler' = [handler EXCEPT ![r] = "over"]
    /\ UNCHANGED <<job, runs, channel, listener, throttle, closed, card, boot>>

Tick ==
    /\ \E r \in Request : throttle[r] # NoState /\ throttle[r].age < MinInterval
    /\ throttle' = [r \in Request |->
           IF throttle[r] # NoState /\ throttle[r].age < MinInterval
           THEN [throttle[r] EXCEPT !.age = @ + 1] ELSE throttle[r]]
    /\ UNCHANGED <<job, runs, channel, listener, closed, card, handler, boot>>

\* A new bot process subscribes anew, with no throttle state and no handlers.
BotRestarts ==
    /\ boot < MaxBoots
    /\ boot' = boot + 1
    /\ listener' = "up"
    /\ channel' = <<>>
    /\ throttle' = [r \in Request |-> NoState]
    /\ handler' = [r \in Request |-> "over"]
    /\ UNCHANGED <<job, runs, closed, card>>

WorkerStep(r) ==
    \/ \E percent \in Percent \cup {NoPercent} : OnProgress(r, percent)
    \/ Converting(r)
    \/ Uploading(r)
    \/ Done(r)
    \/ Fail(r)
    \/ AttemptLost(r)

Next ==
    \/ \E r \in Request : WorkerStep(r) \/ HandlerEdits(r) \/ HandlerRaises(r)
    \/ HandleMessage
    \/ ListenerLosesRedis
    \/ Tick
    \/ BotRestarts

Spec == Init /\ [][Next]_vars

\* The listener's task is scheduled; nothing is asked of the worker.
FairSpec == Spec /\ WF_vars(HandleMessage)

-----------------------------------------------------------------------------
(***************************************************************************)
(* Properties.                                                             *)
(***************************************************************************)
\* The listener never takes a card out of its final state: no event of a
\* request follows its terminal one, through reruns, lost events and throttle
\* (progress_phase.py, "no event for the request follows them").
ListenerKeepsFinal ==
    [][\A r \in Request :
           card[r] \in Final /\ card'[r] # card[r] => handler'[r] # handler[r]
      ]_vars

\* A request whose terminal event was handled occupies no throttle state, then
\* or ever after ("one entry per download would otherwise accumulate").
ThrottleStateReleased ==
    \A r \in closed : throttle[r] = NoState

Arriving(r) ==
    \E i \in DOMAIN channel : channel[i].req = r /\ channel[i].phase \in Final

\* A terminal event that reaches the bot is shown, whatever happens to other
\* cards: the listener "runs forever" (progress_listener.py:142).
FinalReachesCard ==
    \A r \in Request \ Troubled : Arriving(r) ~> (card[r] \in Final)

-----------------------------------------------------------------------------
\* Nothing follows a terminal event, in the channel or out of it.
OrderInv ==
    /\ \A i, j \in DOMAIN channel :
           i < j /\ channel[i].req = channel[j].req => channel[i].phase \notin Final
    /\ \A r \in Request : Arriving(r) => job[r] \in Final
    /\ \A r \in Request : card[r] \in Final \/ r \in closed =>
           /\ job[r] \in Final
           /\ \A i \in DOMAIN channel : channel[i].req # r

\* The types, the order of the events, and no throttle state of a request whose
\* terminal event was handled: together what every step preserves.
ProgressInv == TypeOK /\ OrderInv /\ ThrottleStateReleased

=============================================================================
