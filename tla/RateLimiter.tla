---------------------------- MODULE RateLimiter ----------------------------
(***************************************************************************)
(* RedisRateLimiter.acquire: a sliding window over one key's ZSET.         *)
(*                                                                         *)
(* Keys share nothing, so one key is modelled.  The handlers of the bot    *)
(* run concurrently, and an acquire is two or three round trips to Redis   *)
(* with the clock read once before the first: any number of acquires for   *)
(* the same user may stand between the count and the record.               *)
(*                                                                         *)
(* Each call's ZSET member is a fresh uuid, so a member is its call and    *)
(* its score the time the call read.  Time is in ticks, Second of them to  *)
(* the second of retry_after.                                              *)
(***************************************************************************)
EXTENDS Integers, FiniteSets

CONSTANTS
    Call,         \* the calls of acquire for one key
    Limit,        \* limit
    Window,       \* window_seconds, in ticks
    Margin,       \* the 60 seconds the key's TTL adds to the window
    Second,       \* ticks per second
    Concurrency,  \* how many calls may be in flight at once
    MaxClock      \* bound: the clock stops here

ASSUME LimiterAssumption ==
    /\ Limit \in Nat
    /\ Window \in Nat \ {0}
    /\ Margin \in Nat
    /\ Second \in Nat \ {0}
    /\ Concurrency \in Nat \ {0}
    /\ MaxClock \in Nat

VARIABLES
    pc,          \* where each call stands
    stamp,       \* the "now" each call read
    retryAfter,  \* retry_after_seconds of the calls that were denied
    zset,        \* the members of the ZSET
    ttl,         \* what is left of the key's TTL
    clock

vars == <<pc, stamp, retryAfter, zset, ttl, clock>>

Busy  == {c \in Call : pc[c] \in {"begun", "recording", "denying"}}
State == {"idle", "begun", "recording", "denying", "allowed", "denied",
          "raised"}

TypeOK ==
    /\ pc \in [Call -> State]
    /\ stamp \in [Call -> Nat]
    /\ retryAfter \in [Call -> Nat]
    /\ zset \in SUBSET Call
    /\ ttl \in 0 .. Window + Margin
    /\ clock \in Nat

Init ==
    /\ pc = [c \in Call |-> "idle"]
    /\ stamp = [c \in Call |-> 0]
    /\ retryAfter = [c \in Call |-> 0]
    /\ zset = {}
    /\ ttl = 0
    /\ clock = 0

-----------------------------------------------------------------------------
\* now = time.time()
Begin(c) ==
    /\ pc[c] = "idle"
    /\ Cardinality(Busy) < Concurrency
    /\ pc' = [pc EXCEPT ![c] = "begun"]
    /\ stamp' = [stamp EXCEPT ![c] = clock]
    /\ UNCHANGED <<retryAfter, zset, ttl, clock>>

\* What ZREMRANGEBYSCORE -inf window_start leaves.
Fresh(c) == {e \in zset : stamp[e] > stamp[c] - Window}

\* Redis drops a key with its last member.
KeyTTL(members) == IF members = {} THEN 0 ELSE ttl

\* A bug of Count: > where >= is meant.
CountOffByOne(c) ==
    /\ pc[c] = "begun"
    /\ zset' = Fresh(c)
    /\ ttl' = KeyTTL(Fresh(c))
    /\ pc' = [pc EXCEPT ![c] = IF Cardinality(Fresh(c)) > Limit
                                 THEN "denying" ELSE "recording"]
    /\ UNCHANGED <<stamp, retryAfter, clock>>

\* The first transaction, ZREMRANGEBYSCORE and ZCARD, and the comparison.
Count(c) ==
    /\ pc[c] = "begun"
    /\ zset' = Fresh(c)
    /\ ttl' = KeyTTL(Fresh(c))
    /\ pc' = [pc EXCEPT ![c] = IF Cardinality(Fresh(c)) >= Limit
                                 THEN "denying" ELSE "recording"]
    /\ UNCHANGED <<stamp, retryAfter, clock>>

\* A bug of RetryAfter: the wait is rounded down.
RetryAfterRoundedDown(c, oldest) ==
    LET wait == (stamp[oldest] + Window - stamp[c]) \div Second
    IN  IF wait < 1 THEN 1 ELSE wait

\* max(1, int(oldest_score + window_seconds - now) + 1)
RetryAfter(c, oldest) ==
    LET wait == (stamp[oldest] + Window - stamp[c]) \div Second + 1
    IN  IF wait < 1 THEN 1 ELSE wait

Oldest == {e \in zset : \A f \in zset : stamp[e] <= stamp[f]}

\* A bug of Deny: the denied attempt is recorded as well.
DenyRecords(c) ==
    /\ pc[c] = "denying"
    /\ zset' = zset \cup {c}
    /\ ttl' = Window + Margin
    /\ pc' = [pc EXCEPT ![c] = "denied"]
    /\ UNCHANGED <<stamp, retryAfter, clock>>

\* The limit is reached: ZRANGE 0 0 and the retry hint; nothing is recorded.
Deny(c) ==
    /\ pc[c] = "denying"
    /\ \/ /\ zset = {}
          /\ retryAfter' = [retryAfter EXCEPT ![c] = 1]
       \/ \E e \in Oldest :
            retryAfter' = [retryAfter EXCEPT ![c] = RetryAfter(c, e)]
    /\ pc' = [pc EXCEPT ![c] = "denied"]
    /\ UNCHANGED <<stamp, zset, ttl, clock>>

\* The second transaction, ZADD and EXPIRE.
Record(c) ==
    /\ pc[c] = "recording"
    /\ zset' = zset \cup {c}
    /\ ttl' = Window + Margin
    /\ pc' = [pc EXCEPT ![c] = "allowed"]
    /\ UNCHANGED <<stamp, retryAfter, clock>>

\* Redis cannot be reached: acquire raises, and the handler with it.  The
\* record may have been made before the connection broke.
Raise(c) ==
    /\ pc[c] \in {"begun", "recording", "denying"}
    /\ pc' = [pc EXCEPT ![c] = "raised"]
    /\ \/ UNCHANGED <<zset, ttl>>
       \/ /\ pc[c] = "recording"
          /\ zset' = zset \cup {c}
          /\ ttl' = Window + Margin
    /\ UNCHANGED <<stamp, retryAfter, clock>>

\* A tick passes; the key is gone once its TTL is.
Tick ==
    /\ clock < MaxClock
    /\ clock' = clock + 1
    /\ ttl' = IF ttl = 0 THEN 0 ELSE ttl - 1
    /\ zset' = IF ttl <= 1 THEN {} ELSE zset
    /\ UNCHANGED <<pc, stamp, retryAfter>>

Next ==
    \/ \E c \in Call : Begin(c) \/ Count(c) \/ Deny(c) \/ Record(c) \/ Raise(c)
    \/ Tick

Spec == Init /\ [][Next]_vars

-----------------------------------------------------------------------------
(***************************************************************************)
(* Properties.                                                             *)
(***************************************************************************)
Admitted  == {c \in Call : pc[c] = "allowed" /\ stamp[c] > clock - Window}
Recording == {c \in Call : pc[c] = "recording"}
Begun     == {c \in Call : pc[c] # "idle"}

\* The calls that a denial of c may be charged to.
Earned(c) == {e \in Call : /\ pc[e] \in {"allowed", "raised"}
                           /\ stamp[e] > stamp[c] - Window}

(***************************************************************************)
(* How far the sliding window of acquire is from exact: of the calls that  *)
(* began within the window, at most Limit are allowed when calls do not    *)
(* overlap, and at most Concurrency - 1 more when they do, whichever way   *)
(* their counts and records interleave, although every call prunes by a    *)
(* clock it read earlier.                                                  *)
(***************************************************************************)
AdmittedInWindow == Cardinality(Admitted) <= Limit + Concurrency - 1

(***************************************************************************)
(* A denial is earned: when acquire says no, at least Limit calls within   *)
(* its window were allowed, or recorded and raised.  Denied attempts       *)
(* count for nothing, so hammering does not lengthen the lockout.          *)
(***************************************************************************)
DenialJustified ==
    \A c \in Call :
        pc[c] \in {"denying", "denied"} => Cardinality(Earned(c)) >= Limit

(***************************************************************************)
(* retry_after is what the next attempt needs.  A user who is denied,      *)
(* waits that long, and does nothing else meanwhile, is below the limit    *)
(* that acquire compares with: the oldest call has left the window, so     *)
(* fewer than Limit are there, unless overlapping calls had put more than  *)
(* Limit into it, of which at least one is gone.  And beyond the second    *)
(* that is the least hint, the wait is at most a second longer than any    *)
(* call it counts stays in the window.                                     *)
(***************************************************************************)
HintIsHonest ==
    [][\A c \in Call : pc[c] = "denying" /\ pc'[c] = "denied" =>
         LET then == stamp[c] + retryAfter'[c] * Second
             left == {e \in zset : stamp[e] > then - Window}
         IN  /\ Cardinality(zset) <= Limit /\ Limit > 0 =>
                    Cardinality(left) < Limit
             /\ Cardinality(zset) > Limit => left # zset
             /\ \A e \in zset : \/ retryAfter'[c] = 1
                                \/ then - Second <= stamp[e] + Window]_vars

(***************************************************************************)
(* The inductive invariant behind AdmittedInWindow: what the ZSET holds    *)
(* and what is about to be added to it stay within the bound together, no  *)
(* admitted call of the window is missing from the ZSET, only calls that   *)
(* got as far as the record are in it, and the key outlives the window of  *)
(* every member.  With it DenialJustified is inductive, once it is said    *)
(* that only finitely many calls have begun.                               *)
(***************************************************************************)
BoundInv ==
    /\ IsFiniteSet(Busy)
    /\ IsFiniteSet(zset)
    /\ Cardinality(Busy) <= Concurrency
    /\ Cardinality(zset \cup Recording) <= Limit + Concurrency - 1

KeptInv ==
    /\ Admitted \subseteq zset
    /\ \A c \in Call : stamp[c] <= clock
    /\ \A e \in zset : /\ pc[e] \in {"allowed", "raised"}
                       /\ ttl + clock >= stamp[e] + Window + Margin

LimiterInv == TypeOK /\ BoundInv /\ KeptInv

DenialInv == IsFiniteSet(Begun) /\ DenialJustified

=============================================================================
