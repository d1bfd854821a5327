------------------------- MODULE RateLimiterProofs -------------------------
(***************************************************************************)
(* The bound on what RedisRateLimiter.acquire admits, for every limit,     *)
(* window and number of calls in flight.                                   *)
(***************************************************************************)
EXTENDS RateLimiter, FiniteSetTheorems, TLAPS

USE LimiterAssumption

\* A step after which no more is in the ZSET or about to be added keeps the
\* bound.
LEMMA BoundShrinks ==
    ASSUME TypeOK, BoundInv,
           Busy' \subseteq Busy,
           (zset \cup Recording)' \subseteq zset \cup Recording
    PROVE  BoundInv'
<1>1. IsFiniteSet(Recording)
  <2>1. Recording \subseteq Busy
    BY DEF Recording, Busy
  <2> QED
    BY <2>1, FS_Subset DEF BoundInv
<1>2. IsFiniteSet(zset \cup Recording)
  BY <1>1, FS_Union DEF BoundInv
<1>3. /\ IsFiniteSet((zset \cup Recording)')
      /\ Cardinality((zset \cup Recording)') <= Cardinality(zset \cup Recording)
  BY <1>2, FS_Subset
<1>4. IsFiniteSet(zset')
  BY <1>3, FS_Subset
<1>5. IsFiniteSet(Busy') /\ Cardinality(Busy') <= Cardinality(Busy)
  BY FS_Subset DEF BoundInv
<1>6. /\ Cardinality(Busy) \in Nat /\ Cardinality(Busy') \in Nat
      /\ Cardinality(zset \cup Recording) \in Nat
      /\ Cardinality((zset \cup Recording)') \in Nat
  BY <1>2, <1>3, <1>5, FS_CardinalityType DEF BoundInv
<1> QED
  BY <1>3, <1>4, <1>5, <1>6 DEF BoundInv

\* A call begins: one more is in flight.
LEMMA BeginInv ==
    ASSUME LimiterInv, NEW c \in Call, Begin(c)
    PROVE  LimiterInv'
<1> USE DEF LimiterInv, TypeOK, State
<1>1. TypeOK'
  BY DEF Begin
<1>2. Busy' = Busy \cup {c} /\ c \notin Busy /\ Recording' = Recording
  BY DEF Begin, Busy, Recording
<1>3. IsFiniteSet(Busy') /\ Cardinality(Busy') = Cardinality(Busy) + 1
  BY <1>2, FS_AddElement DEF BoundInv
<1>4. Cardinality(Busy') <= Concurrency
  BY <1>3, FS_CardinalityType DEF Begin, BoundInv
<1>5. BoundInv'
  BY <1>2, <1>3, <1>4 DEF Begin, BoundInv
<1>6. KeptInv'
  <2>1. Admitted' \subseteq Admitted
    BY DEF Begin, Admitted
  <2>2. c \notin zset
    BY DEF Begin, KeptInv
  <2> QED
    BY <2>1, <2>2 DEF Begin, KeptInv
<1> QED
  BY <1>1, <1>5, <1>6

\* The first transaction: pruning by the call's own clock loses no admitted
\* call of the window, and a call that goes on to record found the ZSET below
\* the limit.
LEMMA CountInv ==
    ASSUME LimiterInv, NEW c \in Call, Count(c)
    PROVE  LimiterInv'
<1> USE DEF LimiterInv, TypeOK, State
<1>1. TypeOK'
  BY DEF Count, Fresh, KeyTTL
<1>2. zset' \subseteq zset /\ zset' = Fresh(c)
  BY DEF Count, Fresh
<1>3. Busy' = Busy
  BY DEF Count, Busy
<1>4. KeptInv'
  <2>1. Admitted' = Admitted
    BY DEF Count, Admitted
  <2>2. Admitted \subseteq zset'
    BY <1>2 DEF Admitted, KeptInv, Fresh
  <2>3. zset' # {} => ttl' = ttl
    BY DEF Count, KeyTTL
  <2> QED
    BY <1>2, <2>1, <2>2, <2>3 DEF Count, KeptInv
<1>5. BoundInv'
  <2>1. CASE Cardinality(Fresh(c)) >= Limit
    <3>1. pc' = [pc EXCEPT ![c] = "denying"]
      BY <2>1 DEF Count
    <3>2. Recording' \subseteq Recording
      BY <3>1 DEF Recording
    <3> QED
      BY <1>2, <1>3, <3>2, BoundShrinks
  <2>2. CASE ~(Cardinality(Fresh(c)) >= Limit)
    <3>1. IsFiniteSet(zset') /\ Cardinality(zset') \in Nat
      BY <1>2, FS_Subset, FS_CardinalityType DEF BoundInv
    <3>2. Cardinality(zset') <= Limit - 1
      BY <2>2, <1>2, <3>1
    <3>3. Recording' \subseteq Busy
      BY <1>3 DEF Recording, Busy
    <3>4. /\ IsFiniteSet(Recording')
          /\ Cardinality(Recording') <= Cardinality(Busy)
          /\ Cardinality(Recording') \in Nat /\ Cardinality(Busy) \in Nat
      BY <3>3, FS_Subset, FS_CardinalityType DEF BoundInv
    <3>5. /\ Cardinality(zset' \cup Recording')
               = Cardinality(zset') + Cardinality(Recording')
                   - Cardinality(zset' \cap Recording')
          /\ IsFiniteSet(zset' \cap Recording')
      BY <3>1, <3>4, FS_Union, FS_Subset
    <3>6. Cardinality(zset' \cap Recording') \in Nat
      BY <3>5, FS_CardinalityType
    <3> QED
      BY <1>3, <3>1, <3>2, <3>4, <3>5, <3>6 DEF BoundInv
  <2> QED
    BY <2>1, <2>2
<1> QED
  BY <1>1, <1>4, <1>5

\* The second transaction, also when its reply is lost: what was about to be
\* recorded is.
LEMMA RecordInv ==
    ASSUME LimiterInv, NEW c \in Call, pc[c] = "recording",
           NEW p \in {"allowed", "raised"},
           pc' = [pc EXCEPT ![c] = p],
           zset' = zset \cup {c},
           ttl' = Window + Margin,
           UNCHANGED <<stamp, retryAfter, clock>>
    PROVE  LimiterInv'
<1> USE DEF LimiterInv, TypeOK, State
<1>1. TypeOK'
  OBVIOUS
<1>2. Busy' \subseteq Busy
  BY DEF Busy
<1>3. (zset \cup Recording)' \subseteq zset \cup Recording
  BY DEF Recording
<1>4. BoundInv'
  BY <1>2, <1>3, BoundShrinks
<1>5. KeptInv'
  <2>1. Admitted' \subseteq Admitted \cup {c}
    BY DEF Admitted
  <2>2. \A e \in zset' : ttl' + clock' >= stamp'[e] + Window + Margin
    BY DEF KeptInv
  <2> QED
    BY <2>1, <2>2 DEF KeptInv
<1> QED
  BY <1>1, <1>4, <1>5

\* A call that ends without recording.
LEMMA EndInv ==
    ASSUME LimiterInv, NEW c \in Call, c \in Busy,
           NEW p \in {"denied", "raised"},
           pc' = [pc EXCEPT ![c] = p],
           retryAfter' \in [Call -> Nat],
           UNCHANGED <<stamp, zset, ttl, clock>>
    PROVE  LimiterInv'
<1> USE DEF LimiterInv, TypeOK, State
<1>1. TypeOK'
  OBVIOUS
<1>2. Busy' \subseteq Busy
  BY DEF Busy
<1>3. (zset \cup Recording)' \subseteq zset \cup Recording
  BY DEF Recording
<1>4. BoundInv'
  BY <1>2, <1>3, BoundShrinks
<1>5. KeptInv'
  <2>1. Admitted' \subseteq Admitted
    BY DEF Admitted
  <2>2. c \notin zset
    BY DEF KeptInv, Busy
  <2> QED
    BY <2>1, <2>2 DEF KeptInv
<1> QED
  BY <1>1, <1>4, <1>5

\* Time passes: the key's TTL only runs out when no member is in the window.
LEMMA LimiterTickInv ==
    ASSUME LimiterInv, Tick
    PROVE  LimiterInv'
<1> USE DEF LimiterInv, TypeOK
<1>1. TypeOK'
  BY DEF Tick
<1>2. Busy' \subseteq Busy /\ Recording' = Recording /\ zset' \subseteq zset
  BY DEF Tick, Busy, Recording
<1>3. BoundInv'
  BY <1>2, BoundShrinks
<1>4. KeptInv'
  <2>1. Admitted' \subseteq Admitted
    BY DEF Tick, Admitted
  <2>2. CASE ttl <= 1
    <3>1. \A e \in zset : stamp[e] <= clock + 1 - Window
      BY <2>2 DEF KeptInv
    <3>2. Admitted' = {}
      BY <2>1, <3>1 DEF Admitted, KeptInv, Tick
    <3> QED
      BY <2>2, <3>2 DEF KeptInv, Tick
  <2>3. CASE ttl > 1
    BY <2>1, <2>3 DEF KeptInv, Tick
  <2> QED
    BY <2>2, <2>3
<1> QED
  BY <1>1, <1>3, <1>4

\* LimiterInv is inductive: every step of acquire, of any call, and of the
\* clock preserves it.
THEOREM LimiterInvariance == Spec => []LimiterInv
<1>1. Init => LimiterInv
  <2> SUFFICES ASSUME Init PROVE LimiterInv
    OBVIOUS
  <2>1. Busy = {} /\ Recording = {} /\ Admitted = {} /\ zset = {}
    BY DEF Init, Busy, Recording, Admitted
  <2>2. BoundInv
    BY <2>1, FS_EmptySet DEF BoundInv
  <2> QED
    BY <2>1, <2>2 DEF LimiterInv, TypeOK, State, Init, KeptInv
<1>2. LimiterInv /\ [Next]_vars => LimiterInv'
  <2> SUFFICES ASSUME LimiterInv, [Next]_vars PROVE LimiterInv'
    OBVIOUS
  <2>1. ASSUME NEW c \in Call, Record(c) PROVE LimiterInv'
    BY <2>1, RecordInv DEF Record
  <2>2. ASSUME NEW c \in Call, Deny(c) PROVE LimiterInv'
    <3>1. retryAfter' \in [Call -> Nat]
      <4>1. ASSUME NEW e \in zset PROVE RetryAfter(c, e) \in Nat
        BY <4>1 DEF RetryAfter, LimiterInv, TypeOK
      <4> QED
        BY <2>2, <4>1 DEF Deny, Oldest, LimiterInv, TypeOK
    <3>2. c \in Busy
      BY <2>2 DEF Deny, Busy
    <3> QED
      BY <2>2, <3>1, <3>2, EndInv DEF Deny
  <2>3. ASSUME NEW c \in Call, Raise(c) PROVE LimiterInv'
    <3>1. CASE UNCHANGED <<zset, ttl>>
      <4>1. c \in Busy /\ retryAfter' \in [Call -> Nat]
        BY <2>3 DEF Raise, Busy, LimiterInv, TypeOK
      <4> QED
        BY <2>3, <3>1, <4>1, EndInv DEF Raise
    <3>2. CASE pc[c] = "recording" /\ zset' = zset \cup {c} /\ ttl' = Window + Margin
      BY <2>3, <3>2, RecordInv DEF Raise
    <3> QED
      BY <2>3, <3>1, <3>2 DEF Raise
  <2>4. CASE UNCHANGED vars
    BY <2>4 DEF vars, LimiterInv, TypeOK, BoundInv, KeptInv, Busy, Recording,
                Admitted
  <2> QED
    BY <2>1, <2>2, <2>3, <2>4, BeginInv, CountInv, LimiterTickInv DEF Next
<1> QED
  BY <1>1, <1>2, PTL DEF Spec

\* Of the calls that began within the window, acquire allows at most the
\* limit and one more for every further call in flight; in particular it is
\* exact when calls do not overlap.
THEOREM AdmissionBound == Spec => []AdmittedInWindow
<1>1. LimiterInv => AdmittedInWindow
  <2> SUFFICES ASSUME LimiterInv PROVE AdmittedInWindow
    OBVIOUS
  <2>1. IsFiniteSet(Recording)
    <3>1. Recording \subseteq Busy
      BY DEF Recording, Busy
    <3> QED
      BY <3>1, FS_Subset DEF LimiterInv, BoundInv
  <2>2. IsFiniteSet(zset \cup Recording)
    BY <2>1, FS_Union DEF LimiterInv, BoundInv
  <2>3. Admitted \subseteq zset \cup Recording
    BY DEF LimiterInv, KeptInv
  <2>4. /\ IsFiniteSet(Admitted)
        /\ Cardinality(Admitted) <= Cardinality(zset \cup Recording)
    BY <2>2, <2>3, FS_Subset
  <2>5. Cardinality(Admitted) \in Nat /\ Cardinality(zset \cup Recording) \in Nat
    BY <2>2, <2>4, FS_CardinalityType
  <2> QED
    BY <2>4, <2>5 DEF LimiterInv, BoundInv, AdmittedInWindow
<1> QED
  BY <1>1, LimiterInvariance, PTL

\* What a denial was charged to stays: a call that has ended keeps its end,
\* and a call that has begun keeps its clock.
LEMMA EarnedGrows ==
    ASSUME LimiterInv, [Next]_vars, IsFiniteSet(Begun)
    PROVE  /\ IsFiniteSet(Begun')
           /\ \A d \in Begun : Earned(d) \subseteq Earned(d)'
<1> USE DEF LimiterInv, TypeOK
<1>1. ASSUME NEW c \in Call,
             Begin(c) \/ Count(c) \/ Deny(c) \/ Record(c) \/ Raise(c)
      PROVE  /\ IsFiniteSet(Begun')
             /\ \A d \in Begun : Earned(d) \subseteq Earned(d)'
  <2>1. /\ \A d \in Call : d # c => pc'[d] = pc[d] /\ stamp'[d] = stamp[d]
        /\ pc[c] \notin {"allowed", "raised"}
        /\ pc[c] # "idle" => stamp'[c] = stamp[c]
    BY <1>1 DEF Begin, Count, Deny, Record, Raise
  <2>2. Begun' \subseteq Begun \cup {c}
    BY <2>1 DEF Begun
  <2>3. IsFiniteSet(Begun')
    BY <2>2, FS_AddElement, FS_Subset
  <2>4. \A d \in Begun : Earned(d) \subseteq Earned(d)'
    BY <2>1 DEF Begun, Earned
  <2> QED
    BY <2>3, <2>4
<1>2. CASE UNCHANGED <<pc, stamp>>
  <2>1. Begun' = Begun
    BY <1>2 DEF Begun
  <2>2. \A d \in Begun : Earned(d) \subseteq Earned(d)'
    BY <1>2 DEF Begun, Earned
  <2> QED
    BY <2>1, <2>2
<1> QED
  BY <1>1, <1>2 DEF Next, Tick, vars

\* A call turns to its denial in Count only, where it has just counted Limit
\* members in its window, every one of them earned.
LEMMA DenialStep ==
    ASSUME LimiterInv, DenialInv, [Next]_vars
    PROVE  DenialInv'
<1> USE DEF LimiterInv, TypeOK
<1>1. /\ IsFiniteSet(Begun')
      /\ \A d \in Begun : Earned(d) \subseteq Earned(d)'
  BY EarnedGrows DEF DenialInv
<1>2. ASSUME NEW d \in Call, pc'[d] \in {"denying", "denied"}
      PROVE  Cardinality(Earned(d)') >= Limit
  <2>1. Earned(d)' \subseteq Begun'
    BY DEF Earned, Begun
  <2>2. IsFiniteSet(Earned(d)') /\ Cardinality(Earned(d)') \in Nat
    BY <1>1, <2>1, FS_Subset, FS_CardinalityType
  <2>3. ASSUME NEW S, S \subseteq Earned(d)', Cardinality(S) >= Limit
        PROVE  Cardinality(Earned(d)') >= Limit
    <3>1. Cardinality(S) <= Cardinality(Earned(d)') /\ Cardinality(S) \in Nat
      BY <2>2, <2>3, FS_Subset, FS_CardinalityType
    <3> QED
      BY <2>2, <2>3, <3>1
  <2>4. CASE pc[d] \in {"denying", "denied"}
    <3>1. d \in Begun /\ Cardinality(Earned(d)) >= Limit
      BY <2>4 DEF DenialInv, DenialJustified, Begun
    <3> QED
      BY <1>1, <2>3, <3>1
  <2>5. CASE pc[d] \notin {"denying", "denied"}
    <3>1. Count(d) /\ pc'[d] = "denying"
      BY <1>2, <2>5 DEF Next, vars, Begin, Count, Deny, Record, Raise, Tick
    <3>2. Cardinality(Fresh(d)) >= Limit
      BY <3>1 DEF Count
    <3>3. Fresh(d) \subseteq Earned(d)'
      BY <3>1 DEF Count, Fresh, Earned, KeptInv
    <3> QED
      BY <2>3, <3>2, <3>3
  <2> QED
    BY <2>4, <2>5
<1>3. DenialJustified'
  BY <1>2 DEF DenialJustified
<1> QED
  BY <1>1, <1>3 DEF DenialInv

\* acquire denies nobody without cause: Limit calls of the window were allowed,
\* or recorded before they raised, however many calls overlap.
THEOREM DenialsAreEarned == Spec => []DenialJustified
<1>1. Init => DenialInv
  <2> SUFFICES ASSUME Init PROVE DenialInv
    OBVIOUS
  <2>1. Begun = {}
    BY DEF Init, Begun
  <2>2. IsFiniteSet(Begun)
    BY <2>1, FS_EmptySet
  <2> QED
    BY <2>2 DEF DenialInv, DenialJustified, Init
<1>2. DenialInv => DenialJustified
  BY DEF DenialInv
<1> QED
  BY <1>1, <1>2, DenialStep, LimiterInvariance, PTL DEF Spec

\* The oldest member of the window is out of it when the hint has passed: int()
\* rounds down and the code adds one.
LEMMA HintOutlivesOldest ==
    ASSUME LimiterInv, NEW c \in Call, NEW e \in zset
    PROVE  stamp[c] + RetryAfter(c, e) * Second > stamp[e] + Window
<1> DEFINE a == stamp[e] + Window - stamp[c]
           q == a \div Second
<1>1. a \in Int /\ stamp[c] \in Nat /\ stamp[e] \in Nat
  BY DEF LimiterInv, TypeOK
<1>2. q \in Int /\ (q + 1) * Second > a
  BY <1>1
<1>3. CASE q + 1 < 1
  <2>1. RetryAfter(c, e) = 1
    BY <1>3 DEF RetryAfter
  <2>2. a < 0
    BY <1>1, <1>3
  <2> QED
    BY <1>1, <2>1, <2>2
<1>4. CASE ~(q + 1 < 1)
  <2>1. RetryAfter(c, e) = q + 1
    BY <1>4 DEF RetryAfter
  <2> HIDE DEF q
  <2> QED
    BY <1>1, <1>2, <2>1
<1> QED
  BY <1>3, <1>4

\* The hint is 1, or at most a second longer than the oldest member stays.
LEMMA HintIsTight ==
    ASSUME LimiterInv, NEW c \in Call, NEW e \in zset, RetryAfter(c, e) # 1
    PROVE  stamp[c] + RetryAfter(c, e) * Second - Second <= stamp[e] + Window
<1> DEFINE a == stamp[e] + Window - stamp[c]
           q == a \div Second
<1>1. a \in Int /\ stamp[c] \in Nat /\ stamp[e] \in Nat
  BY DEF LimiterInv, TypeOK
<1>2. q \in Int /\ q * Second <= a
  BY <1>1
<1>3. RetryAfter(c, e) = q + 1
  BY DEF RetryAfter
<1> HIDE DEF q
<1>4. (q + 1) * Second - Second = q * Second
  BY <1>2
<1> QED
  BY <1>1, <1>2, <1>3, <1>4

\* A part of the members that misses one is smaller than the limit, if the
\* members are not more than that.
LEMMA HintStep ==
    ASSUME LimiterInv, Cardinality(zset) <= Limit, Limit > 0,
           NEW T, T \subseteq zset, zset # {} => T # zset
    PROVE  Cardinality(T) < Limit
<1>1. IsFiniteSet(zset)
  BY DEF LimiterInv, BoundInv
<1>2. /\ IsFiniteSet(T) /\ Cardinality(T) \in Nat /\ Cardinality(zset) \in Nat
      /\ Cardinality(T) <= Cardinality(zset)
      /\ Cardinality(zset) = Cardinality(T) => zset = T
  BY <1>1, FS_Subset, FS_CardinalityType
<1>3. CASE zset = {}
  BY <1>1, <1>3, FS_EmptySet
<1>4. CASE zset # {}
  BY <1>2, <1>4
<1> QED
  BY <1>3, <1>4

\* The retry hint is long enough and not too long, for every limit, window and
\* resolution, however many calls overlap, and however late the denial comes
\* after its count.
THEOREM HintIsEnough == Spec => HintIsHonest
<1>1. LimiterInv /\ [Next]_vars =>
        [\A c \in Call : pc[c] = "denying" /\ pc'[c] = "denied" =>
           LET then == stamp[c] + retryAfter'[c] * Second
               left == {e \in zset : stamp[e] > then - Window}
           IN  /\ Cardinality(zset) <= Limit /\ Limit > 0 =>
                      Cardinality(left) < Limit
               /\ Cardinality(zset) > Limit => left # zset
               /\ \A e \in zset : \/ retryAfter'[c] = 1
                                  \/ then - Second <= stamp[e] + Window]_vars
  <2> SUFFICES ASSUME LimiterInv, [Next]_vars, NEW c \in Call,
                      pc[c] = "denying", pc'[c] = "denied"
               PROVE  LET then == stamp[c] + retryAfter'[c] * Second
                          left == {e \in zset : stamp[e] > then - Window}
                      IN  /\ Cardinality(zset) <= Limit /\ Limit > 0 =>
                                 Cardinality(left) < Limit
                          /\ Cardinality(zset) > Limit => left # zset
                          /\ \A e \in zset : \/ retryAfter'[c] = 1
                                             \/ then - Second <= stamp[e] + Window
    OBVIOUS
  <2> DEFINE then == stamp[c] + retryAfter'[c] * Second
             left == {e \in zset : stamp[e] > then - Window}
  <2>1. Deny(c)
    BY DEF Next, vars, Begin, Count, Deny, Record, Raise, Tick, LimiterInv,
           TypeOK
  <2>2. CASE zset = {}
    <3>1. left = {} /\ IsFiniteSet({}) /\ Cardinality({}) = 0
      BY <2>2, FS_EmptySet
    <3>2. Cardinality(zset) = 0 /\ Limit \in Nat
      BY <2>2, <3>1, LimiterAssumption
    <3> HIDE DEF then
    <3> QED
      BY <2>2, <3>1, <3>2
  <2>3. CASE zset # {}
    <3>1. PICK e \in Oldest : retryAfter'[c] = RetryAfter(c, e)
      BY <2>1, <2>3 DEF Deny, LimiterInv, TypeOK
    <3>2. e \in zset /\ \A f \in zset : stamp[e] <= stamp[f]
      BY <3>1 DEF Oldest
    <3>3. /\ RetryAfter(c, e) \in Nat /\ stamp[c] \in Nat
          /\ \A f \in zset : stamp[f] \in Nat
      BY <3>2 DEF RetryAfter, LimiterInv, TypeOK
    <3>4. then \in Int /\ Second \in Nat /\ Window \in Nat
      BY <3>1, <3>3, LimiterAssumption
    <3>5. then > stamp[e] + Window
      BY <3>1, <3>2, HintOutlivesOldest
    <3>6. retryAfter'[c] = 1 \/ then - Second <= stamp[e] + Window
      <4>1. RetryAfter(c, e) = 1 \/
              stamp[c] + RetryAfter(c, e) * Second - Second <= stamp[e] + Window
        BY ONLY LimiterInv, c \in Call, <3>2, HintIsTight
      <4>2. then - Second = stamp[c] + RetryAfter(c, e) * Second - Second
        BY <3>1, <3>3, <3>4
      <4> HIDE DEF then
      <4> QED
        BY <3>1, <4>1, <4>2, Zenon
    <3> HIDE DEF then
    <3>7. e \notin left
      BY <3>2, <3>3, <3>4, <3>5
    <3>8. left \subseteq zset /\ left # zset
      BY <3>2, <3>7
    <3>9. \A f \in zset : retryAfter'[c] = 1 \/ then - Second <= stamp[f] + Window
      BY <3>2, <3>3, <3>4, <3>6
    <3> HIDE DEF left
    <3>10. Cardinality(zset) <= Limit /\ Limit > 0 => Cardinality(left) < Limit
      <4> SUFFICES ASSUME Cardinality(zset) <= Limit, Limit > 0
                   PROVE  Cardinality(left) < Limit
        OBVIOUS
      <4> QED
        BY ONLY LimiterInv, Cardinality(zset) <= Limit, Limit > 0, <3>8, HintStep
    <3> QED
      BY <3>8, <3>9, <3>10 DEF left, then
  <2> QED
    BY <2>2, <2>3
<1> QED
  BY <1>1, LimiterInvariance, PTL DEF Spec, HintIsHonest

=============================================================================
