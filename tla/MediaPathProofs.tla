-------------------------- MODULE MediaPathProofs --------------------------
(***************************************************************************)
(* The way of a link, for every set of links, formats, sizes, lengths and  *)
(* titles, every limit and every configuration of domains.                 *)
(*                                                                         *)
(* The lemmas of the first part are about the rules; the steps of the path *)
(* follow.                                                                 *)
(***************************************************************************)
EXTENDS MediaPath, FiniteSetTheorems, SequenceTheorems, WellFoundedInduction, TLAPS

USE SizeAssumption

\* Every set of naturals has a least element.
LEMMA LeastNumber ==
    ASSUME NEW T, T \subseteq Nat, T # {}
    PROVE  \E x \in T : \A y \in T : x <= y
<1> DEFINE R == OpToRel(<, Nat)
<1>1. IsWellFoundedOn(R, Nat)
  BY NatLessThanWellFounded
<1>2. \A x, y \in Nat : <<y, x>> \in R <=> y < x
  BY DEF OpToRel
<1> HIDE DEF R
<1>3. PICK x \in T : \A y \in T : ~(<<y, x>> \in R)
  BY <1>1, WFMin
<1>4. \A y \in T : x <= y
  <2> SUFFICES ASSUME NEW y \in T PROVE x <= y
    OBVIOUS
  <2>1. ~(y < x)
    BY <1>2, <1>3
  <2> QED
    BY <2>1
<1> QED
  BY <1>4

\* The maximum of a finite set of naturals is there: a smallest set without
\* one would have one as soon as an element is taken out of it.
LEMMA MaxIsThere ==
    ASSUME NEW S, S \subseteq Nat, IsFiniteSet(S), S # {}
    PROVE  Max(S) \in S /\ \A y \in S : y <= Max(S)
<1> DEFINE HasMax(A) == \E x \in A : \A y \in A : x >= y
           T == {n \in Nat : \E A \in SUBSET Nat :
                   /\ IsFiniteSet(A) /\ A # {} /\ Cardinality(A) = n
                   /\ ~HasMax(A)}
<1>1. T = {}
  <2> SUFFICES ASSUME T # {} PROVE FALSE
    OBVIOUS
  <2>1. PICK n \in T : \A k \in T : n <= k
    BY LeastNumber
  <2>2. PICK A \in SUBSET Nat :
          IsFiniteSet(A) /\ A # {} /\ Cardinality(A) = n /\ ~HasMax(A)
    OBVIOUS
  <2>3. PICK x \in A : TRUE
    BY <2>2
  <2>4. /\ IsFiniteSet(A \ {x}) /\ Cardinality(A \ {x}) = n - 1
        /\ Cardinality(A \ {x}) \in Nat
    BY <2>2, FS_RemoveElement, FS_CardinalityType
  <2>5. n - 1 \notin T
    BY <2>1, <2>4
  <2>6. CASE A \ {x} = {}
    <3>1. \A y \in A : x >= y
      BY <2>6
    <3> QED
      BY <2>2, <3>1
  <2>7. CASE A \ {x} # {}
    <3>1. HasMax(A \ {x})
      BY <2>4, <2>5, <2>7
    <3> QED
      BY <2>2, <3>1
  <2> QED
    BY <2>6, <2>7
<1>2. HasMax(S)
  BY <1>1, FS_CardinalityType
<1> QED
  BY <1>2 DEF Max

\* The shorter side of a picture.
LEMMA MinOfTwo ==
    ASSUME NEW a \in Nat, NEW b \in Nat
    PROVE  /\ Min({a, b}) \in Nat
           /\ Min({a, b}) <= a /\ Min({a, b}) <= b
  BY DEF Min

\* The short side of a preview is a number, and if there is one, some format
\* of the codec it is taken from is that large both ways.
LEMMA ShortSideIsReached ==
    ASSUME NEW fs, fs \subseteq Format
    PROVE  LET side0 == MaxCompatibleShortSide(fs)
               sized == {f \in fs : f.vcodec # "none" /\ f.width > 0 /\ f.height > 0}
               inline == {f \in sized : f.vcodec = CompatibleCodec}
           IN  /\ side0 \in Nat
               /\ side0 # NoSide =>
                    \E f \in sized : /\ f.width >= side0 /\ f.height >= side0
                                     /\ inline # {} => f \in inline
<1> DEFINE side0 == MaxCompatibleShortSide(fs)
           sized == {f \in fs : f.vcodec # "none" /\ f.width > 0 /\ f.height > 0}
           inline == {f \in sized : f.vcodec = CompatibleCodec}
           pool == IF inline # {} THEN inline ELSE sized
           M == {Min({f.width, f.height}) : f \in pool}
<1>1. side0 = IF pool = {} THEN NoSide ELSE Max(M)
  BY DEF MaxCompatibleShortSide
<1>2. \A f \in pool : f.width \in Nat /\ f.height \in Nat
  BY FormatAssumption
<1>3. CASE pool = {}
  BY <1>1, <1>3 DEF NoSide
<1>4. CASE pool # {}
  <2>1. IsFiniteSet(pool)
    BY FormatAssumption, FS_Subset
  <2> HIDE DEF pool
  <2>2. IsFiniteSet(M) /\ M # {}
    <3> DEFINE short == [f \in pool |-> Min({f.width, f.height})]
    <3>1. short \in Surjection(pool, M)
      BY DEF Surjection
    <3> QED
      BY <1>4, <2>1, <3>1, FS_Surjection
  <2>3. M \subseteq Nat
    BY <1>2, MinOfTwo
  <2>4. Max(M) \in M
    BY <2>2, <2>3, MaxIsThere
  <2>5. PICK f \in pool : Max(M) = Min({f.width, f.height})
    BY <2>4
  <2>6. f.width >= Max(M) /\ f.height >= Max(M) /\ Max(M) \in Nat
    BY <1>2, <2>5, MinOfTwo
  <2>7. f \in sized /\ (inline # {} => f \in inline)
    BY DEF pool
  <2> QED
    BY <1>1, <1>4, <2>6, <2>7
<1> QED
  BY <1>3, <1>4

\* The order in which the signatures are tried.
LEMMA ClassifiedInOrder ==
    ASSUME NEW m, NEW photo \in BOOLEAN
    PROVE  ClassifyError(m, photo) =
             IF "private" \in m THEN "PrivateContentError"
             ELSE IF "age" \in m THEN "AgeRestrictedError"
             ELSE IF "geo" \in m THEN "GeoRestrictedError"
             ELSE IF "unavailable" \in m THEN "ContentUnavailableError"
             ELSE IF "no_media" \in m THEN "UnsupportedMediaError"
             ELSE IF "unsupported_url" \notin m THEN "ExtractionError"
             ELSE IF photo \/ "photo" \in m THEN "UnsupportedMediaError"
             ELSE "UnsupportedURLError"
<1> DEFINE hits == {i \in DOMAIN Signatures : Signatures[i][1] \in m}
           first == CHOOSE i \in hits : \A j \in hits : i <= j
<1>1. /\ DOMAIN Signatures = {1, 2, 3, 4, 5}
      /\ Signatures[1][1] = "private" /\ Signatures[1][2] = "PrivateContentError"
      /\ Signatures[2][1] = "age" /\ Signatures[2][2] = "AgeRestrictedError"
      /\ Signatures[3][1] = "geo" /\ Signatures[3][2] = "GeoRestrictedError"
      /\ Signatures[4][1] = "unavailable"
      /\ Signatures[4][2] = "ContentUnavailableError"
      /\ Signatures[5][1] = "no_media"
      /\ Signatures[5][2] = "UnsupportedMediaError"
  BY DEF Signatures
<1>2. /\ 1 \in hits <=> "private" \in m
      /\ 2 \in hits <=> "age" \in m
      /\ 3 \in hits <=> "geo" \in m
      /\ 4 \in hits <=> "unavailable" \in m
      /\ 5 \in hits <=> "no_media" \in m
      /\ hits \subseteq {1, 2, 3, 4, 5}
  BY <1>1
<1>3. ClassifyError(m, photo) =
        IF hits # {} THEN Signatures[first][2]
        ELSE IF "unsupported_url" \notin m THEN "ExtractionError"
        ELSE IF photo \/ "photo" \in m THEN "UnsupportedMediaError"
        ELSE "UnsupportedURLError"
  BY DEF ClassifyError
<1> HIDE DEF hits
<1>4. ASSUME NEW k \in hits, \A j \in hits : k <= j
      PROVE  ClassifyError(m, photo) = Signatures[k][2]
  <2>1. \A i \in hits : (\A j \in hits : i <= j) => i = k
    BY <1>2, <1>4
  <2>2. first = k
    BY <1>4, <2>1
  <2> HIDE DEF first
  <2> QED
    BY <1>3, <1>4, <2>2
<1> HIDE DEF first
<1>5. CASE 1 \in hits
  <2>1. \A j \in hits : 1 <= j
    BY <1>2, <1>5
  <2>2. ClassifyError(m, photo) = Signatures[1][2]
    BY <1>4, <1>5, <2>1
  <2> QED
    BY <1>1, <1>2, <1>5, <2>2
<1>6. CASE 1 \notin hits /\ 2 \in hits
  <2>1. \A j \in hits : 2 <= j
    BY <1>2, <1>6
  <2>2. ClassifyError(m, photo) = Signatures[2][2]
    BY <1>4, <1>6, <2>1
  <2> QED
    BY <1>1, <1>2, <1>6, <2>2
<1>7. CASE 1 \notin hits /\ 2 \notin hits /\ 3 \in hits
  <2>1. \A j \in hits : 3 <= j
    BY <1>2, <1>7
  <2>2. ClassifyError(m, photo) = Signatures[3][2]
    BY <1>4, <1>7, <2>1
  <2> QED
    BY <1>1, <1>2, <1>7, <2>2
<1>8. CASE 1 \notin hits /\ 2 \notin hits /\ 3 \notin hits /\ 4 \in hits
  <2>1. \A j \in hits : 4 <= j
    BY <1>2, <1>8
  <2>2. ClassifyError(m, photo) = Signatures[4][2]
    BY <1>4, <1>8, <2>1
  <2> QED
    BY <1>1, <1>2, <1>8, <2>2
<1>9. CASE /\ 1 \notin hits /\ 2 \notin hits /\ 3 \notin hits /\ 4 \notin hits
           /\ 5 \in hits
  <2>1. \A j \in hits : 5 <= j
    BY <1>2, <1>9
  <2>2. ClassifyError(m, photo) = Signatures[5][2]
    BY <1>4, <1>9, <2>1
  <2> QED
    BY <1>1, <1>2, <1>9, <2>2
<1>10. CASE hits = {}
  <2>1. m \cap {"private", "age", "geo", "unavailable", "no_media"} = {}
    BY <1>2, <1>10
  <2> QED
    BY <1>3, <1>10, <2>1
<1> QED
  BY <1>2, <1>5, <1>6, <1>7, <1>8, <1>9, <1>10

\* A spec survives its two columns, and two strings are a spec or none.
LEMMA SpecRoundTrip ==
    /\ \A s \in DownloadSpec :
         /\ SpecFromParts(SpecKind(s), SpecVideoTier(s)) = s
         /\ SpecFromParts(s.kind, s.tier) = s /\ s # NoSpec
         /\ s.kind \in Kind
    /\ \A k, t : SpecFromParts(k, t) # NoSpec =>
         /\ SpecFromParts(k, t) = [kind |-> k, tier |-> t]
         /\ SpecFromParts(k, t) \in DownloadSpec
  BY DEF DownloadSpec, VideoSpec, AudioSpec, SpecFromParts, SpecKind,
         SpecVideoTier, NoSpec, NoTier, Tier, Kind

\* Python's round is off by half a unit at most, whether the info or ffprobe
\* knows the value.
LEMMA FactRounds ==
    ASSUME NEW h \in Nat \ {0}, NEW a \in {h, 0, Nothing}, NEW b \in {h, Nothing}
    PROVE  /\ Rounds(PositiveInt(a), h)
           /\ Rounds(Or(PositiveInt(a), PositiveInt(b)), h)
<1>1. PositiveInt(0) = Nothing /\ PositiveInt(Nothing) = Nothing
  BY DEF PositiveInt, Nothing
<1>2. Rounds(PositiveInt(h), h)
  <2> DEFINE n == h \div 2
  <2>1. n \in Nat /\ (h = 2 * n \/ h = 2 * n + 1) /\ h % 2 = h - 2 * n
    OBVIOUS
  <2>2. PositiveInt(h) = IF h % 2 = 1 /\ n % 2 = 1 THEN n + 1 ELSE n
    BY DEF PositiveInt
  <2> HIDE DEF n
  <2>3. PositiveInt(h) \in {n, n + 1} /\ (PositiveInt(h) = n + 1 => h = 2 * n + 1)
    BY <2>1, <2>2
  <2> QED
    BY <2>1, <2>3 DEF Rounds
<1>3. Rounds(Nothing, h)
  BY DEF Rounds
<1> QED
  BY <1>1, <1>2, <1>3 DEF Or

\* What the child reports of a file is the file's own.
LEMMA FactsAreRounded ==
    ASSUME NEW kind \in Kind,
           NEW facts \in [width : Int, height : Int, duration : Length],
           kind = "video" => /\ facts.width = Picture.width
                             /\ facts.height = Picture.height,
           NEW info \in Info(facts), NEW probed \in Probe(facts)
    PROVE  LET r == MediaFacts(kind, info, probed)
           IN  /\ Rounds(r.duration, facts.duration)
               /\ kind = "video" => /\ Rounds(r.width, Picture.width)
                                    /\ Rounds(r.height, Picture.height)
<1> DEFINE r == MediaFacts(kind, info, probed)
           seen == [f \in DOMAIN probed |-> PositiveInt(probed[f])]
<1>1. /\ Picture.width \in Nat \ {0} /\ Picture.height \in Nat \ {0}
      /\ facts.duration \in Nat \ {0}
  <2>1. facts.duration \in Nat \ {0}
    OBVIOUS
  <2>2. Picture.width = 6 /\ Picture.height = 4
    BY DEF Picture
  <2> QED
    BY <2>1, <2>2
<1>2. /\ info.width \in {Picture.width, 0, Nothing}
      /\ info.height \in {Picture.height, 0, Nothing}
      /\ info.duration \in {facts.duration, 0, Nothing}
  BY DEF Info
<1>3. /\ probed.duration \in {facts.duration, Nothing}
      /\ kind = "video" => /\ probed.width \in {Picture.width, Nothing}
                           /\ probed.height \in {Picture.height, Nothing}
      /\ DOMAIN probed = {"width", "height", "duration"}
  BY DEF Probe, NoFacts
<1>4. /\ seen.width = PositiveInt(probed.width)
      /\ seen.height = PositiveInt(probed.height)
      /\ seen.duration = PositiveInt(probed.duration)
  BY <1>3
<1>5. r.duration \in {PositiveInt(info.duration),
                      Or(PositiveInt(info.duration), PositiveInt(probed.duration))}
  BY <1>4 DEF MediaFacts
<1>6. ASSUME kind = "video"
      PROVE  /\ r.width \in {PositiveInt(info.width),
                             Or(PositiveInt(info.width), PositiveInt(probed.width))}
             /\ r.height \in {PositiveInt(info.height),
                              Or(PositiveInt(info.height), PositiveInt(probed.height))}
  BY <1>4, <1>6 DEF MediaFacts
<1> HIDE DEF r
<1>7. Rounds(r.duration, facts.duration)
  BY <1>1, <1>2, <1>3, <1>5, FactRounds
<1>8. ASSUME kind = "video" PROVE Rounds(r.width, Picture.width)
  BY <1>1, <1>2, <1>3, <1>6, <1>8, FactRounds
<1>9. ASSUME kind = "video" PROVE Rounds(r.height, Picture.height)
  BY <1>1, <1>2, <1>3, <1>6, <1>9, FactRounds
<1> QED
  BY <1>7, <1>8, <1>9 DEF r

\* The sizes of one or two requested downloads add up.
LEMMA SizesAddUp ==
    ASSUME NEW a, NEW b
    PROVE  /\ FoldLeft(LAMBDA sum, e : sum + EntrySize(e), 0, <<a>>)
                = 0 + EntrySize(a)
           /\ FoldLeft(LAMBDA sum, e : sum + EntrySize(e), 0, <<a, b>>)
                = (0 + EntrySize(a)) + EntrySize(b)
<1> DEFINE F(s) == FoldLeft(LAMBDA sum, e : sum + EntrySize(e), 0, s)
           unfold(it, s) == [d \in SUBSET DOMAIN s |->
              IF d = {} THEN 0 ELSE it[d \ {Max(d)}] + EntrySize(s[Max(d)])]
           iter(s) == CHOOSE it : it = unfold(it, s)
<1>1. Max({1}) = 1 /\ Max({2}) = 2 /\ Max({1, 2}) = 2
  BY DEF Max
<1>2. \A s : F(s) = iter(s)[DOMAIN s]
  BY DEF FoldLeft, MapThenFoldSet
<1>3. F(<<a>>) = 0 + EntrySize(a)
  <2> DEFINE s == <<a>>
             g == [d \in SUBSET DOMAIN s |->
                     IF d = {} THEN 0 ELSE 0 + EntrySize(a)]
  <2>1. DOMAIN s = {1} /\ s[1] = a
    OBVIOUS
  <2> HIDE DEF s
  <2>2. g = unfold(g, s)
    <3> SUFFICES ASSUME NEW d \in SUBSET DOMAIN s PROVE g[d] = unfold(g, s)[d]
      OBVIOUS
    <3>1. CASE d = {}
      BY <3>1
    <3>2. CASE d = {1}
      <4>1. d \ {Max(d)} = {} /\ s[Max(d)] = a
        BY <1>1, <2>1, <3>2
      <4> QED
        BY <3>2, <4>1
    <3> QED
      BY <2>1, <3>1, <3>2
  <2> DEFINE it == iter(s)
  <2>3. it = unfold(it, s)
    BY <2>2
  <2> HIDE DEF it
  <2>4. it[{}] = 0
    BY <2>3
  <2>5. \A d \in SUBSET DOMAIN s :
          d # {} => it[d] = it[d \ {Max(d)}] + EntrySize(s[Max(d)])
    BY <2>3
  <2>6. {1} \ {Max({1})} = {} /\ s[Max({1})] = a
    BY <1>1, <2>1
  <2>7. it[{1}] = 0 + EntrySize(a)
    BY <2>1, <2>4, <2>5, <2>6
  <2> QED
    BY <1>2, <2>1, <2>7 DEF it, s
<1>4. F(<<a, b>>) = (0 + EntrySize(a)) + EntrySize(b)
  <2> DEFINE s == <<a, b>>
             g == [d \in SUBSET DOMAIN s |->
                     IF d = {} THEN 0
                     ELSE IF d = {1} THEN 0 + EntrySize(a)
                     ELSE IF d = {2} THEN 0 + EntrySize(b)
                     ELSE (0 + EntrySize(a)) + EntrySize(b)]
  <2>1. DOMAIN s = {1, 2} /\ s[1] = a /\ s[2] = b
    OBVIOUS
  <2> HIDE DEF s
  <2>2. g = unfold(g, s)
    <3> SUFFICES ASSUME NEW d \in SUBSET DOMAIN s PROVE g[d] = unfold(g, s)[d]
      OBVIOUS
    <3>1. d \in {{}, {1}, {2}, {1, 2}}
      BY <2>1
    <3>2. CASE d = {}
      BY <3>2
    <3>3. CASE d = {1}
      <4>1. d \ {Max(d)} = {} /\ s[Max(d)] = a
        BY <1>1, <2>1, <3>3
      <4> QED
        BY <3>3, <4>1
    <3>4. CASE d = {2}
      <4>1. d \ {Max(d)} = {} /\ s[Max(d)] = b
        BY <1>1, <2>1, <3>4
      <4> QED
        BY <3>4, <4>1
    <3>5. CASE d = {1, 2}
      <4>1. d \ {Max(d)} = {1} /\ s[Max(d)] = b
        BY <1>1, <2>1, <3>5
      <4> QED
        BY <3>5, <4>1
    <3> QED
      BY <3>1, <3>2, <3>3, <3>4, <3>5
  <2> DEFINE it == iter(s)
  <2>3. it = unfold(it, s)
    BY <2>2
  <2> HIDE DEF it
  <2>4. it[{}] = 0
    BY <2>3
  <2>5. \A d \in SUBSET DOMAIN s :
          d # {} => it[d] = it[d \ {Max(d)}] + EntrySize(s[Max(d)])
    BY <2>3
  <2>6. /\ {1} \ {Max({1})} = {} /\ s[Max({1})] = a
        /\ {1, 2} \ {Max({1, 2})} = {1} /\ s[Max({1, 2})] = b
    BY <1>1, <2>1
  <2>7. it[{1}] = 0 + EntrySize(a)
    BY <2>1, <2>4, <2>5, <2>6
  <2>8. it[{1, 2}] = (0 + EntrySize(a)) + EntrySize(b)
    BY <2>1, <2>5, <2>6, <2>7
  <2> QED
    BY <1>2, <2>1, <2>8 DEF it, s
<1> QED
  BY <1>3, <1>4

\* A part's size is what the code takes for it.
LEMMA PartSize ==
    ASSUME NEW e \in Entry
    PROVE  Said(e) = EntrySize(e) /\ EntrySize(e) \in Nat \cup {Nothing}
<1>1. e.exact \in Nat \cup {Nothing} /\ e.approx \in Nat \cup {Nothing}
  BY SizeAssumption DEF Entry
<1> QED
  BY <1>1 DEF Said, EntrySize, Or, Nothing

\* The numbered bytes of one part.
LEMMA PartBytes ==
    ASSUME NEW i, NEW n \in Nat
    PROVE  IsFiniteSet({i} \X (1..n)) /\ Cardinality({i} \X (1..n)) = n
<1>1. IsFiniteSet(1..n) /\ Cardinality(1..n) = n
  <2>1. 1 \in Int /\ n \in Int
    OBVIOUS
  <2>2. /\ IsFiniteSet(1..n)
        /\ Cardinality(1..n) = IF 1 > n THEN 0 ELSE n - 1 + 1
    BY <2>1, FS_Interval
  <2> QED
    BY <2>2
<1>2. IsFiniteSet({i}) /\ Cardinality({i}) = 1
  BY FS_Singleton
<1>3. /\ IsFiniteSet({i} \X (1..n))
      /\ Cardinality({i} \X (1..n)) = Cardinality({i}) * Cardinality(1..n)
  BY <1>1, <1>2, FS_Product
<1> QED
  BY <1>1, <1>2, <1>3

\* One part: the estimate is its size, or unknown if that is.
LEMMA OnePart ==
    ASSUME NEW info, NEW e \in Entry, Parts(info) = <<e>>,
           EstimateTotalFilesize(info) = EntrySize(e)
    PROVE  /\ Sized(info) => /\ Cardinality(BytesOf(info)) \in Nat
                             /\ EstimateTotalFilesize(info)
                                  = Cardinality(BytesOf(info))
           /\ ~Sized(info) => EstimateTotalFilesize(info) = Nothing
<1> DEFINE n == Said(e)
<1>1. DOMAIN <<e>> = {1} /\ <<e>>[1] = e
  OBVIOUS
<1>2. Sized(info) <=> n # Nothing
  BY <1>1 DEF Sized
<1>3. n = EntrySize(e) /\ n \in Nat \cup {Nothing}
  BY PartSize
<1>4. BytesOf(info) = {1} \X (1..n)
  <2>1. DOMAIN Parts(info) = {1} /\ Parts(info)[1] = e
    BY <1>1
  <2>2. BytesOf(info) = UNION {{i} \X (1..Said(Parts(info)[i])) : i \in {1}}
    BY <2>1, Zenon DEF BytesOf
  <2>3. {{i} \X (1..Said(Parts(info)[i])) : i \in {1}} = {{1} \X (1..n)}
    BY <2>1
  <2> HIDE DEF n
  <2>4. UNION {{1} \X (1..n)} = {1} \X (1..n)
    OBVIOUS
  <2> QED
    BY <2>2, <2>3, <2>4
<1> HIDE DEF n
<1>5. ASSUME Sized(info) PROVE Cardinality(BytesOf(info)) = n /\ n \in Nat
  BY <1>2, <1>3, <1>4, <1>5, PartBytes
<1> QED
  BY <1>2, <1>3, <1>5

\* Two parts: the estimate is the sum, or unknown if either is.
LEMMA TwoParts ==
    ASSUME NEW info, NEW e \in Entry, NEW f \in Entry, Parts(info) = <<e, f>>,
           EstimateTotalFilesize(info) =
             IF EntrySize(e) = Nothing \/ EntrySize(f) = Nothing THEN Nothing
             ELSE (0 + EntrySize(e)) + EntrySize(f)
    PROVE  /\ Sized(info) => /\ Cardinality(BytesOf(info)) \in Nat
                             /\ EstimateTotalFilesize(info)
                                  = Cardinality(BytesOf(info))
           /\ ~Sized(info) => EstimateTotalFilesize(info) = Nothing
<1> DEFINE m == Said(e)
           n == Said(f)
<1>1. DOMAIN <<e, f>> = {1, 2} /\ <<e, f>>[1] = e /\ <<e, f>>[2] = f
  OBVIOUS
<1>2. Sized(info) <=> m # Nothing /\ n # Nothing
  BY <1>1 DEF Sized
<1>3. /\ m = EntrySize(e) /\ m \in Nat \cup {Nothing}
      /\ n = EntrySize(f) /\ n \in Nat \cup {Nothing}
  BY PartSize
<1>4. BytesOf(info) = ({1} \X (1..m)) \cup ({2} \X (1..n))
  <2>1. /\ DOMAIN Parts(info) = {1, 2}
        /\ Parts(info)[1] = e /\ Parts(info)[2] = f
    BY <1>1
  <2>2. BytesOf(info) = UNION {{i} \X (1..Said(Parts(info)[i])) : i \in {1, 2}}
    BY <2>1, Zenon DEF BytesOf
  <2>3. {{i} \X (1..Said(Parts(info)[i])) : i \in {1, 2}}
          = {{1} \X (1..m), {2} \X (1..n)}
    BY <2>1
  <2> HIDE DEF m, n
  <2>4. UNION {{1} \X (1..m), {2} \X (1..n)}
          = ({1} \X (1..m)) \cup ({2} \X (1..n))
    OBVIOUS
  <2> QED
    BY <2>2, <2>3, <2>4
<1> HIDE DEF m, n
<1>5. ASSUME Sized(info)
      PROVE  Cardinality(BytesOf(info)) = m + n /\ m \in Nat /\ n \in Nat
  <2>1. m \in Nat /\ n \in Nat
    BY <1>2, <1>3, <1>5
  <2>2. /\ IsFiniteSet({1} \X (1..m)) /\ Cardinality({1} \X (1..m)) = m
        /\ IsFiniteSet({2} \X (1..n)) /\ Cardinality({2} \X (1..n)) = n
    BY <2>1, PartBytes
  <2>3. ({1} \X (1..m)) \cap ({2} \X (1..n)) = {}
    OBVIOUS
  <2>4. Cardinality({}) = 0
    BY FS_EmptySet
  <2> DEFINE A == {1} \X (1..m)
             B == {2} \X (1..n)
  <2>5. Cardinality(A \cup B)
          = Cardinality(A) + Cardinality(B) - Cardinality(A \cap B)
    BY <2>2, FS_Union
  <2>6. /\ Cardinality(A) = m /\ Cardinality(B) = n
        /\ Cardinality(A \cap B) = 0 /\ BytesOf(info) = A \cup B
    BY <1>4, <2>2, <2>3, <2>4
  <2> HIDE DEF A, B
  <2> QED
    BY <2>1, <2>5, <2>6
<1> QED
  BY <1>2, <1>3, <1>5

\* The estimate is the number of bytes of all the parts, or unknown.
LEMMA EstimateIsTheBytes ==
    ASSUME NEW info \in Listing
    PROVE  /\ Sized(info) => /\ Cardinality(BytesOf(info)) \in Nat
                             /\ EstimateTotalFilesize(info)
                                  = Cardinality(BytesOf(info))
           /\ ~Sized(info) => EstimateTotalFilesize(info) = Nothing
<1> DEFINE parts == info.requested
           total == FoldLeft(LAMBDA sum, e : sum + EntrySize(e), 0, parts)
<1>1. info.whole \in Entry /\ parts \in Requested
  BY DEF Listing
<1>2. EstimateTotalFilesize(info) =
        IF parts = << >> THEN EntrySize(info.whole)
        ELSE IF \E i \in DOMAIN parts : EntrySize(parts[i]) = Nothing
             THEN Nothing ELSE total
  BY Zenon DEF EstimateTotalFilesize
<1>3. Parts(info) = IF parts = << >> THEN <<info.whole>> ELSE parts
  BY DEF Parts
<1>4. \A e : parts = <<e>> => total = 0 + EntrySize(e)
  BY SizesAddUp, Zenon
<1>5. \A e, f : parts = <<e, f>> => total = (0 + EntrySize(e)) + EntrySize(f)
  BY SizesAddUp, Zenon
<1> HIDE DEF total
<1>6. CASE parts = << >>
  <2>1. /\ Parts(info) = <<info.whole>>
        /\ EstimateTotalFilesize(info) = EntrySize(info.whole)
    BY <1>2, <1>3, <1>6
  <2> QED
    BY <1>1, <2>1, OnePart
<1>7. ASSUME NEW e \in Entry, parts = <<e>>
      PROVE  EstimateTotalFilesize(info) = EntrySize(e) /\ Parts(info) = <<e>>
  <2>1. parts # << >> /\ DOMAIN parts = {1} /\ parts[1] = e
    BY <1>7
  <2>2. EntrySize(e) \in Nat \cup {Nothing}
    BY PartSize
  <2> QED
    BY <1>2, <1>3, <1>4, <1>7, <2>1, <2>2 DEF Nothing
<1>8. ASSUME NEW e \in Entry, NEW f \in Entry, parts = <<e, f>>
      PROVE  /\ Parts(info) = <<e, f>>
             /\ EstimateTotalFilesize(info) =
                  IF EntrySize(e) = Nothing \/ EntrySize(f) = Nothing
                  THEN Nothing ELSE (0 + EntrySize(e)) + EntrySize(f)
  <2>1. parts # << >> /\ DOMAIN parts = {1, 2} /\ parts[1] = e /\ parts[2] = f
    BY <1>8
  <2> QED
    BY <1>2, <1>3, <1>5, <1>8, <2>1
<1>9. \/ parts = << >>
      \/ \E e \in Entry : parts = <<e>>
      \/ \E e, f \in Entry : parts = <<e, f>>
  BY <1>1 DEF Requested
<1>10. ASSUME NEW e \in Entry, parts = <<e>>
       PROVE  /\ Sized(info) => /\ Cardinality(BytesOf(info)) \in Nat
                                /\ EstimateTotalFilesize(info)
                                     = Cardinality(BytesOf(info))
              /\ ~Sized(info) => EstimateTotalFilesize(info) = Nothing
  BY <1>7, <1>10, OnePart
<1>11. ASSUME NEW e \in Entry, NEW f \in Entry, parts = <<e, f>>
       PROVE  /\ Sized(info) => /\ Cardinality(BytesOf(info)) \in Nat
                                /\ EstimateTotalFilesize(info)
                                     = Cardinality(BytesOf(info))
              /\ ~Sized(info) => EstimateTotalFilesize(info) = Nothing
  BY <1>8, <1>11, TwoParts
<1> QED
  BY <1>6, <1>9, <1>10, <1>11

\* Stripping the dots in front removes the empty labels there, all of them
\* and nothing else.
LEMMA DotsInFront ==
    ASSUME NEW s \in Seq(Label)
    PROVE  \E n \in 0..Len(s) :
              /\ \A i \in 1..n : s[i] = NoLabel
              /\ n < Len(s) => s[n + 1] # NoLabel
              /\ WithoutDotsInFront(s) = SubSeq(s, n + 1, Len(s))
<1> DEFINE Fits(n) == /\ \A i \in 1..n : s[i] = NoLabel
                      /\ n < Len(s) => s[n + 1] # NoLabel
           Stops == {k \in Nat : k <= Len(s) /\ (k < Len(s) => s[k + 1] # NoLabel)}
<1>1. Len(s) \in Nat
  OBVIOUS
<1>2. Len(s) \in Stops
  BY <1>1
<1>3. PICK n \in Stops : \A k \in Stops : n <= k
  BY <1>2, LeastNumber
<1>4. \A i \in 1..n : s[i] = NoLabel
  <2> SUFFICES ASSUME NEW i \in 1..n, s[i] # NoLabel PROVE FALSE
    OBVIOUS
  <2>1. n \in Nat /\ i - 1 \in Nat /\ i - 1 < n /\ (i - 1) + 1 = i /\ n <= Len(s)
    BY <1>1
  <2>2. s[(i - 1) + 1] # NoLabel
    BY <2>1
  <2>3. i - 1 <= Len(s)
    BY <1>1, <2>1
  <2>4. i - 1 \in Stops
    BY <2>1, <2>2, <2>3
  <2> HIDE DEF Stops
  <2>5. n <= i - 1
    BY <1>3, <2>4
  <2> QED
    BY <2>1, <2>5
<1>5. n \in 0..Len(s) /\ Fits(n)
  BY <1>1, <1>4
<1>6. PICK c \in 0..Len(s) : c = (CHOOSE k \in 0..Len(s) : Fits(k)) /\ Fits(c)
  BY <1>5
<1>7. WithoutDotsInFront(s) = SubSeq(s, c + 1, Len(s))
  BY <1>6, Zenon DEF WithoutDotsInFront
<1> QED
  BY <1>6, <1>7

\* The same behind.
LEMMA DotsBehind ==
    ASSUME NEW s \in Seq(Label)
    PROVE  \E e \in 0..Len(s) :
              /\ \A i \in e + 1..Len(s) : s[i] = NoLabel
              /\ e > 0 => s[e] # NoLabel
              /\ WithoutDotsBehind(s) = [i \in 1..e |-> s[i]]
<1> DEFINE r == Reverse(s)
<1>1. Len(s) \in Nat /\ \A i \in 1..Len(s) : s[i] \in Label
  OBVIOUS
<1>2. /\ r \in Seq(Label) /\ Len(r) = Len(s)
      /\ \A i \in 1..Len(s) : r[i] = s[(Len(s) - i) + 1]
  <2>1. r = [i \in 1..Len(s) |-> s[(Len(s) - i) + 1]]
    BY DEF Reverse
  <2>2. \A i \in 1..Len(s) : s[(Len(s) - i) + 1] \in Label
    BY <1>1
  <2> HIDE DEF r
  <2>3. r \in [1..Len(s) -> Label]
    BY <2>1, <2>2
  <2>4. r \in Seq(Label)
    BY <1>1, <2>3, IsASeq
  <2>5. Len(r) = Len(s)
    BY <1>1, <2>3, <2>4, LenProperties
  <2> QED
    BY <2>1, <2>4, <2>5
<1> HIDE DEF r
<1>3. PICK n \in 0..Len(s) :
          /\ \A i \in 1..n : r[i] = NoLabel
          /\ n < Len(s) => r[n + 1] # NoLabel
          /\ WithoutDotsInFront(r) = SubSeq(r, n + 1, Len(s))
  BY <1>2, DotsInFront
<1> DEFINE e == Len(s) - n
           kept == SubSeq(r, n + 1, Len(s))
<1>4. e \in 0..Len(s)
  BY <1>1
<1>5. ASSUME NEW i \in e + 1..Len(s) PROVE s[i] = NoLabel
  <2>1. (Len(s) - i) + 1 \in 1..n /\ (Len(s) - i) + 1 \in 1..Len(s)
    BY <1>1
  <2>2. r[(Len(s) - i) + 1] = s[(Len(s) - ((Len(s) - i) + 1)) + 1]
    BY <1>2, <2>1
  <2>3. (Len(s) - ((Len(s) - i) + 1)) + 1 = i
    BY <1>1
  <2> QED
    BY <1>3, <2>1, <2>2, <2>3
<1>6. e > 0 => s[e] # NoLabel
  <2> SUFFICES ASSUME e > 0 PROVE s[e] # NoLabel
    OBVIOUS
  <2>1. n < Len(s) /\ n + 1 \in 1..Len(s) /\ (Len(s) - (n + 1)) + 1 = e
    BY <1>1
  <2>2. r[n + 1] = s[(Len(s) - (n + 1)) + 1]
    BY <1>2, <2>1
  <2> QED
    BY <1>3, <2>1, <2>2
<1>7. WithoutDotsBehind(s) = [i \in 1..e |-> s[i]]
  <2>1. /\ kept = [i \in 1..e |-> r[n + i]] /\ Len(kept) = e
    <3>1. kept = [i \in 1..e |-> r[(n + 1 + i) - 1]]
      BY <1>1, <1>2
    <3>2. Len(kept) = e
      BY <1>1, <1>2
    <3>3. \A i \in 1..e : (n + 1 + i) - 1 = n + i
      BY <1>1
    <3> QED
      BY <3>1, <3>2, <3>3
  <2> HIDE DEF kept
  <2>2. Reverse(kept) = [i \in 1..e |-> kept[(e - i) + 1]]
    BY <2>1 DEF Reverse
  <2>3. ASSUME NEW i \in 1..e PROVE kept[(e - i) + 1] = s[i]
    <3>1. /\ (e - i) + 1 \in 1..e
          /\ n + ((e - i) + 1) \in 1..Len(s)
          /\ (Len(s) - (n + ((e - i) + 1))) + 1 = i
      BY <1>1
    <3>2. kept[(e - i) + 1] = r[n + ((e - i) + 1)]
      BY <2>1, <3>1
    <3> HIDE DEF e
    <3>3. r[n + ((e - i) + 1)] = s[(Len(s) - (n + ((e - i) + 1))) + 1]
      BY <1>2, <3>1
    <3> QED
      BY <3>1, <3>2, <3>3
  <2>4. Reverse(kept) = [i \in 1..e |-> s[i]]
    BY <2>2, <2>3
  <2>5. WithoutDotsBehind(s) = Reverse(kept)
    BY <1>3 DEF WithoutDotsBehind, r, kept
  <2> QED
    BY <2>4, <2>5
<1> QED
  BY <1>4, <1>5, <1>6, <1>7

\* A suffix is compared from the right.
LEMMA SuffixFromTheRight ==
    ASSUME NEW d \in Seq(Label), NEW h \in Seq(Label)
    PROVE  IsSuffix(d, h) <=>
              /\ Len(d) <= Len(h)
              /\ \A i \in 0..Len(d) - 1 : h[Len(h) - i] = d[Len(d) - i]
<1>1. Len(d) \in Nat /\ Len(h) \in Nat
  OBVIOUS
<1> DEFINE rd == [i \in 1..Len(d) |-> d[(Len(d) - i) + 1]]
           rh == [i \in 1..Len(h) |-> h[(Len(h) - i) + 1]]
<1>2. rd \in Seq(Label) /\ Len(rd) = Len(d)
  <2>1. \A i \in 1..Len(d) : d[(Len(d) - i) + 1] \in Label
    BY <1>1
  <2>2. rd \in [1..Len(d) -> Label]
    BY <2>1
  <2> QED
    BY <1>1, <2>2, IsASeq, LenProperties
<1>3. rh \in Seq(Label) /\ Len(rh) = Len(h)
  <2>1. \A i \in 1..Len(h) : h[(Len(h) - i) + 1] \in Label
    BY <1>1
  <2>2. rh \in [1..Len(h) -> Label]
    BY <2>1
  <2> QED
    BY <1>1, <2>2, IsASeq, LenProperties
<1>4. Reverse(d) = rd /\ Reverse(h) = rh
  BY DEF Reverse
<1>5. IsSuffix(d, h) <=>
        Len(d) <= Len(h) /\ SubSeq(rd, 1, Len(d)) = SubSeq(rh, 1, Len(d))
  BY <1>2, <1>3, <1>4, Zenon DEF IsSuffix, IsPrefix
<1>6. ASSUME Len(d) <= Len(h)
      PROVE  SubSeq(rd, 1, Len(d)) = SubSeq(rh, 1, Len(d)) <=>
               \A i \in 0..Len(d) - 1 : h[Len(h) - i] = d[Len(d) - i]
  <2>1. \A i \in 1..Len(d) : rd[i] = d[(Len(d) - i) + 1] /\ rh[i] = h[(Len(h) - i) + 1]
    BY <1>1, <1>6
  <2> HIDE DEF rd, rh
  <2>2. SubSeq(rd, 1, Len(d)) = [i \in 1..Len(d) |-> rd[(1 + i) - 1]]
    BY <1>1, <1>2
  <2>3. SubSeq(rh, 1, Len(d)) = [i \in 1..Len(d) |-> rh[(1 + i) - 1]]
    BY <1>1, <1>3, <1>6
  <2>4. \A i \in 1..Len(d) : (1 + i) - 1 = i
    OBVIOUS
  <2>5. SubSeq(rd, 1, Len(d)) = SubSeq(rh, 1, Len(d)) <=>
          \A i \in 1..Len(d) : rd[i] = rh[i]
    BY <2>2, <2>3, <2>4
  <2>6. (\A i \in 1..Len(d) : rd[i] = rh[i]) <=>
          \A i \in 1..Len(d) : d[(Len(d) - i) + 1] = h[(Len(h) - i) + 1]
    BY <2>1
  <2>7. (\A i \in 1..Len(d) : d[(Len(d) - i) + 1] = h[(Len(h) - i) + 1]) <=>
          \A i \in 0..Len(d) - 1 : h[Len(h) - i] = d[Len(d) - i]
    <3>1. ASSUME \A i \in 1..Len(d) : d[(Len(d) - i) + 1] = h[(Len(h) - i) + 1],
                 NEW i \in 0..Len(d) - 1
          PROVE  h[Len(h) - i] = d[Len(d) - i]
      <4>1. /\ i + 1 \in 1..Len(d)
            /\ (Len(d) - (i + 1)) + 1 = Len(d) - i
            /\ (Len(h) - (i + 1)) + 1 = Len(h) - i
        BY <1>1
      <4>2. d[(Len(d) - (i + 1)) + 1] = h[(Len(h) - (i + 1)) + 1]
        BY <3>1, <4>1
      <4> QED
        BY <4>1, <4>2
    <3>2. ASSUME \A i \in 0..Len(d) - 1 : h[Len(h) - i] = d[Len(d) - i],
                 NEW i \in 1..Len(d)
          PROVE  d[(Len(d) - i) + 1] = h[(Len(h) - i) + 1]
      <4>1. /\ i - 1 \in 0..Len(d) - 1
            /\ Len(d) - (i - 1) = (Len(d) - i) + 1
            /\ Len(h) - (i - 1) = (Len(h) - i) + 1
        BY <1>1
      <4>2. h[Len(h) - (i - 1)] = d[Len(d) - (i - 1)]
        BY <3>2, <4>1
      <4> QED
        BY <4>1, <4>2
    <3> QED
      BY <3>1, <3>2
  <2> QED
    BY <2>5, <2>6, <2>7
<1> QED
  BY <1>5, <1>6

\* The comparison of the code is the one of the labels.
LEMMA MatchesIsWithin ==
    ASSUME NEW l, l.host \in Seq(Label), NEW domain \in Seq(Label)
    PROVE  HostMatches(Hostname(l), domain) <=> Within(l.host, domain)
<1> DEFINE host == l.host
           lh == LowerHost(host)
           ld == LowerHost(domain)
<1>1. Len(host) \in Nat /\ Len(domain) \in Nat
  OBVIOUS
<1>2. ASSUME NEW s \in Seq(Label)
      PROVE  /\ LowerHost(s) \in Seq(Label) /\ Len(LowerHost(s)) = Len(s)
             /\ \A i \in 1..Len(s) : /\ LowerHost(s)[i] = Lowered[s[i]]
                                     /\ LowerHost(s)[i] = NoLabel <=> s[i] = NoLabel
  <2>1. LowerHost(s) = [i \in 1..Len(s) |-> Lowered[s[i]]]
    BY DEF LowerHost
  <2>2. \A i \in 1..Len(s) : /\ s[i] \in Label /\ Lowered[s[i]] \in Label
                             /\ Lowered[s[i]] = NoLabel <=> s[i] = NoLabel
    BY LabelAssumption
  <2>3. LowerHost(s) \in [1..Len(s) -> Label] /\ Len(s) \in Nat
    BY <2>1, <2>2
  <2> QED
    BY <2>1, <2>2, <2>3, IsASeq, LenProperties
<1>3. /\ lh \in Seq(Label) /\ Len(lh) = Len(host)
      /\ \A i \in 1..Len(host) : /\ lh[i] = Lowered[host[i]]
                                 /\ lh[i] = NoLabel <=> host[i] = NoLabel
  BY <1>2
<1>4. /\ ld \in Seq(Label) /\ Len(ld) = Len(domain)
      /\ \A i \in 1..Len(domain) : /\ ld[i] = Lowered[domain[i]]
                                   /\ ld[i] = NoLabel <=> domain[i] = NoLabel
  BY <1>2
<1> HIDE DEF lh, ld
<1>5. PICK e \in 0..Len(host) :
         /\ \A i \in e + 1..Len(host) : lh[i] = NoLabel
         /\ e > 0 => lh[e] # NoLabel
         /\ WithoutDotsBehind(lh) = [i \in 1..e |-> lh[i]]
  BY <1>3, DotsBehind
<1>6. PICK c \in 0..Len(domain) :
         /\ \A i \in 1..c : ld[i] = NoLabel
         /\ c < Len(domain) => ld[c + 1] # NoLabel
         /\ WithoutDotsInFront(ld) = SubSeq(ld, c + 1, Len(domain))
  BY <1>4, DotsInFront
<1> DEFINE n == Len(domain) - c
           h == [i \in 1..e |-> lh[i]]
           d == SubSeq(ld, c + 1, Len(domain))
           Same(k, m) == \A i \in 0..m - 1 :
                            Lowered[host[k - i]] = Lowered[domain[Len(domain) - i]]
<1>7. n \in 0..Len(domain) /\ Len(domain) - n = c
  BY <1>1
<1>8. h \in Seq(Label) /\ Len(h) = e /\ \A i \in 1..e : h[i] = Lowered[host[i]]
  <2>1. \A i \in 1..e : i \in 1..Len(host)
    BY <1>1
  <2>2. \A i \in 1..e : lh[i] \in Label /\ lh[i] = Lowered[host[i]]
    BY <1>3, <2>1
  <2>3. h \in [1..e -> Label] /\ e \in Nat
    BY <2>2
  <2> QED
    BY <2>2, <2>3, IsASeq, LenProperties
<1>9. d \in Seq(Label) /\ Len(d) = n /\ \A i \in 1..n : d[i] = Lowered[domain[c + i]]
  <2>1. d \in Seq(Label) /\ Len(d) = n
    BY <1>1, <1>4
  <2>2. ASSUME NEW i \in 1..n PROVE d[i] = Lowered[domain[c + i]]
    <3>1. c + i \in 1..Len(domain) /\ (c + 1 + i) - 1 = c + i
      BY <1>1
    <3>2. d[i] = ld[(c + 1 + i) - 1]
      BY <1>1, <1>4, <2>2
    <3> QED
      BY <1>4, <3>1, <3>2
  <2> QED
    BY <2>1, <2>2
<1>10. HostMatches(Hostname(l), domain) <=> h = d \/ (d # << >> /\ IsSuffix(d, h))
  <2>1. Hostname(l) = h
    BY <1>5, Zenon DEF Hostname, lh
  <2>2. WithoutDotsInFront(LowerHost(domain)) = d
    BY <1>6 DEF ld
  <2> HIDE DEF h, d
  <2> QED
    BY <2>1, <2>2, Zenon DEF HostMatches
<1>11. IsSuffix(d, h) <=> n <= e /\ Same(e, n)
  <2>1. IsSuffix(d, h) <=> n <= e /\ \A i \in 0..n - 1 : h[e - i] = d[n - i]
    <3> HIDE DEF d, h, n
    <3> QED
      BY <1>8, <1>9, SuffixFromTheRight
  <2>2. ASSUME n <= e, NEW i \in 0..n - 1
        PROVE  /\ h[e - i] = Lowered[host[e - i]]
               /\ d[n - i] = Lowered[domain[Len(domain) - i]]
    <3>1. e - i \in 1..e /\ n - i \in 1..n /\ c + (n - i) = Len(domain) - i
      BY <1>1, <2>2
    <3> HIDE DEF h, d, n
    <3> QED
      BY <1>8, <1>9, <3>1
  <2> HIDE DEF h, d
  <2> QED
    BY <2>1, <2>2
<1>12. (h = d \/ (d # << >> /\ IsSuffix(d, h))) <=>
          n <= e /\ (n = 0 => e = 0) /\ Same(e, n)
  <2>1. d = << >> <=> n = 0
    <3> HIDE DEF d, n
    <3> QED
      BY <1>9, EmptySeq
  <2>2. ASSUME h = d PROVE e = n /\ IsSuffix(d, h)
    <3>1. e = n
      BY <1>8, <1>9, <2>2
    <3>2. Len(d) <= Len(h) /\ \A i \in 0..Len(d) - 1 : h[Len(h) - i] = d[Len(d) - i]
      <4> HIDE DEF h, d, n
      <4>1. Len(d) \in Nat
        BY <1>9
      <4> QED
        BY <2>2, <4>1
    <3>3. IsSuffix(d, h)
      <4> HIDE DEF h, d, n
      <4> QED
        BY <1>8, <1>9, <3>2, SuffixFromTheRight
    <3> QED
      BY <3>1, <3>3
  <2>3. ASSUME e = 0, n = 0 PROVE h = d
    <3> HIDE DEF h, d, n
    <3>1. h = << >> /\ d = << >>
      BY <1>8, <1>9, <2>3, EmptySeq
    <3> QED
      BY <3>1
  <2> HIDE DEF h, d, Same
  <2>4. n \in Nat /\ e \in Nat
    BY <1>1
  <2> HIDE DEF n
  <2> QED
    BY <1>11, <2>1, <2>2, <2>3, <2>4
<1>13. /\ \A i \in e + 1..Len(host) : host[i] = NoLabel
       /\ e > 0 => host[e] # NoLabel
       /\ \A i \in 1..c : domain[i] = NoLabel
       /\ n > 0 => domain[c + 1] # NoLabel
  <2>1. \A i \in e + 1..Len(host) : i \in 1..Len(host)
    BY <1>1
  <2>2. e > 0 => e \in 1..Len(host)
    BY <1>1
  <2>3. \A i \in 1..c : i \in 1..Len(domain)
    BY <1>1
  <2>4. n > 0 => c < Len(domain) /\ c + 1 \in 1..Len(domain)
    BY <1>1
  <2> QED
    BY <1>3, <1>4, <1>5, <1>6, <2>1, <2>2, <2>3, <2>4
<1>14. Within(host, domain) <=> n <= e /\ (n = 0 => e = 0) /\ Same(e, n)
  <2>1. ASSUME n <= e /\ (n = 0 => e = 0) /\ Same(e, n) PROVE Within(host, domain)
    <3> HIDE DEF n
    <3> QED
      BY <1>7, <1>13, <2>1 DEF Within
  <2>2. ASSUME NEW k \in 0..Len(host), NEW m \in 0..Len(domain),
               \A i \in k + 1..Len(host) : host[i] = NoLabel,
               k > 0 => host[k] # NoLabel,
               \A i \in 1..Len(domain) - m : domain[i] = NoLabel,
               m > 0 => domain[(Len(domain) - m) + 1] # NoLabel
        PROVE  k = e /\ m = n
    <3>1. ~(k < e)
      <4> SUFFICES ASSUME k < e PROVE FALSE
        OBVIOUS
      <4>1. e \in k + 1..Len(host) /\ e > 0
        BY <1>1
      <4> QED
        BY <1>13, <2>2, <4>1
    <3>2. ~(e < k)
      <4> SUFFICES ASSUME e < k PROVE FALSE
        OBVIOUS
      <4>1. k \in e + 1..Len(host) /\ k > 0
        BY <1>1
      <4> QED
        BY <1>13, <2>2, <4>1
    <3>3. ~(n < m)
      <4> SUFFICES ASSUME n < m PROVE FALSE
        OBVIOUS
      <4>1. (Len(domain) - m) + 1 \in 1..c /\ m > 0
        BY <1>1
      <4> QED
        BY <1>13, <2>2, <4>1
    <3>4. ~(m < n)
      <4> SUFFICES ASSUME m < n PROVE FALSE
        OBVIOUS
      <4>1. c + 1 \in 1..Len(domain) - m /\ n > 0
        BY <1>1
      <4> QED
        BY <1>13, <2>2, <4>1
    <3> QED
      BY <1>1, <3>1, <3>2, <3>3, <3>4
  <2>3. ASSUME Within(host, domain) PROVE n <= e /\ (n = 0 => e = 0) /\ Same(e, n)
    <3>1. PICK k \in 0..Len(host), m \in 0..Len(domain) :
              /\ \A i \in k + 1..Len(host) : host[i] = NoLabel
              /\ k > 0 => host[k] # NoLabel
              /\ \A i \in 1..Len(domain) - m : domain[i] = NoLabel
              /\ m > 0 => domain[(Len(domain) - m) + 1] # NoLabel
              /\ m <= k /\ (m = 0 => k = 0)
              /\ Same(k, m)
      BY <2>3, Zenon DEF Within
    <3>2. k = e /\ m = n
      <4> HIDE DEF Same, n
      <4> QED
        BY <2>2, <3>1
    <3> HIDE DEF Same, n
    <3> QED
      BY <3>1, <3>2
  <2> QED
    BY <2>1, <2>3
<1> QED
  BY <1>10, <1>12, <1>14

\* A character joined to visible ones leaves visible ones.
LEMMA JoinedType ==
    ASSUME NEW text \in Seq(DOMAIN Bytes), NEW char \in Char
    PROVE  Joined(text, char) \in Seq(DOMAIN Bytes)
<1> DEFINE c == IF char \in {"forbidden", "newline"} THEN "space" ELSE char
<1>1. DOMAIN Bytes = {"letter", "wide", "space", "dot"}
  BY DEF Bytes
<1>2. c = "invisible" \/ c \in DOMAIN Bytes
  BY <1>1 DEF Char
<1>3. c \in DOMAIN Bytes => Append(text, c) \in Seq(DOMAIN Bytes)
  BY AppendProperties
<1>4. \/ Joined(text, char) = text
      \/ c # "invisible" /\ Joined(text, char) = Append(text, c)
  BY Zenon DEF Joined
<1> HIDE DEF c
<1> QED
  BY <1>2, <1>3, <1>4, Zenon

\* The fold over a title of any length exists: as a function on sets of
\* positions, built up by their number.
LEMMA FoldUnfolds ==
    ASSUME NEW title \in Seq(Char)
    PROVE  \E it : /\ FoldLeft(Joined, << >>, title) = it[DOMAIN title]
                   /\ it[{}] = << >>
                   /\ \A d \in SUBSET DOMAIN title : d # {} =>
                        it[d] = Joined(it[d \ {Max(d)}], title[Max(d)])
<1> DEFINE D == DOMAIN title
           unfold(it) == [d \in SUBSET D |->
               IF d = {} THEN << >> ELSE Joined(it[d \ {Max(d)}], title[Max(d)])]
           Upto(g, k) == /\ g[{}] = << >>
                         /\ \A d \in SUBSET D : d # {} /\ Cardinality(d) <= k =>
                              g[d] = Joined(g[d \ {Max(d)}], title[Max(d)])
           T == {k \in Nat : ~\E g : Upto(g, k)}
<1>1. /\ D = 1..Len(title) /\ Len(title) \in Nat
      /\ IsFiniteSet(D) /\ Cardinality(D) = Len(title)
  <2>1. D = 1..Len(title) /\ Len(title) \in Nat
    OBVIOUS
  <2>2. /\ IsFiniteSet(1..Len(title))
        /\ Cardinality(1..Len(title)) =
             IF 1 > Len(title) THEN 0 ELSE Len(title) - 1 + 1
    BY <2>1, FS_Interval, 1 \in Int, Len(title) \in Int
  <2>3. (IF 1 > Len(title) THEN 0 ELSE Len(title) - 1 + 1) = Len(title)
    BY <2>1
  <2> QED
    BY <2>1, <2>2, <2>3
<1>2. ASSUME NEW d \in SUBSET D
      PROVE  /\ IsFiniteSet(d) /\ Cardinality(d) \in Nat
             /\ Cardinality(d) <= Len(title)
             /\ Cardinality(d) = 0 <=> d = {}
  BY <1>1, FS_Subset, FS_CardinalityType, FS_EmptySet
<1>3. ASSUME NEW d \in SUBSET D, d # {}
      PROVE  /\ Max(d) \in d /\ d \ {Max(d)} \in SUBSET D
             /\ Cardinality(d \ {Max(d)}) = Cardinality(d) - 1
  <2>1. d \subseteq Nat /\ IsFiniteSet(d)
    BY <1>1, <1>2
  <2>2. Max(d) \in d
    BY <1>3, <2>1, MaxIsThere
  <2> QED
    BY <2>1, <2>2, FS_RemoveElement
<1> HIDE DEF D
<1>4. T = {}
  <2> SUFFICES ASSUME T # {} PROVE FALSE
    OBVIOUS
  <2>1. PICK k \in T : \A j \in T : k <= j
    BY LeastNumber
  <2>2. k # 0
    <3> DEFINE g == [d \in SUBSET D |-> << >>]
    <3>1. Upto(g, 0)
      BY <1>2
    <3> HIDE DEF g, Upto
    <3> QED
      BY <3>1
  <2>3. k \in Nat /\ k - 1 \in Nat /\ k - 1 < k
    BY <2>2
  <2>4. PICK g : Upto(g, k - 1)
    <3> HIDE DEF Upto
    <3>1. k - 1 \notin T
      <4> HIDE DEF T
      <4> QED
        BY <2>1, <2>3
    <3> QED
      BY <2>3, <3>1
  <2> DEFINE h == [d \in SUBSET D |->
                     IF Cardinality(d) <= k - 1 THEN g[d]
                     ELSE Joined(g[d \ {Max(d)}], title[Max(d)])]
  <2>5. h[{}] = << >>
    <3>1. {} \in SUBSET D /\ Cardinality({}) <= k - 1
      BY <1>2, <2>3
    <3> QED
      BY <2>4, <3>1
  <2>6. ASSUME NEW d \in SUBSET D, d # {}, Cardinality(d) <= k
        PROVE  h[d] = Joined(h[d \ {Max(d)}], title[Max(d)])
    <3>1. /\ d \ {Max(d)} \in SUBSET D
          /\ Cardinality(d \ {Max(d)}) <= k - 1
      BY <1>2, <1>3, <2>3, <2>6
    <3>2. h[d \ {Max(d)}] = g[d \ {Max(d)}]
      BY <3>1
    <3>3. CASE Cardinality(d) <= k - 1
      <4>1. h[d] = g[d]
        BY <3>3
      <4> QED
        BY <2>4, <2>6, <3>2, <3>3, <4>1
    <3>4. CASE ~(Cardinality(d) <= k - 1)
      <4>1. h[d] = Joined(g[d \ {Max(d)}], title[Max(d)])
        BY <3>4
      <4> QED
        BY <3>2, <4>1
    <3> QED
      BY <3>3, <3>4
  <2> HIDE DEF h
  <2>7. Upto(h, k)
    BY <2>5, <2>6
  <2> HIDE DEF Upto
  <2> QED
    BY <2>7
<1>5. PICK g : Upto(g, Len(title))
  <2> HIDE DEF Upto
  <2> QED
    BY <1>1, <1>4
<1> DEFINE h == [d \in SUBSET D |-> g[d]]
<1>6. h = unfold(h)
  <2> SUFFICES ASSUME NEW d \in SUBSET D PROVE h[d] = unfold(h)[d]
    OBVIOUS
  <2>1. CASE d = {}
    BY <1>5, <2>1
  <2>2. CASE d # {}
    <3>1. d \ {Max(d)} \in SUBSET D
      BY <1>3, <2>2
    <3>2. g[d] = Joined(g[d \ {Max(d)}], title[Max(d)])
      BY <1>2, <1>5, <2>2
    <3> QED
      BY <2>2, <3>1, <3>2
  <2> QED
    BY <2>1, <2>2
<1> DEFINE iter == CHOOSE it : it = unfold(it)
<1>7. iter = unfold(iter)
  BY <1>6
<1>8. FoldLeft(Joined, << >>, title) = iter[D]
  BY DEF FoldLeft, MapThenFoldSet, D
<1> HIDE DEF iter
<1>9. iter[{}] = << >>
  BY <1>7
<1>10. \A d \in SUBSET D : d # {} => iter[d] = Joined(iter[d \ {Max(d)}], title[Max(d)])
  BY <1>7
<1> QED
  BY <1>8, <1>9, <1>10 DEF D

\* What is joined of a title is visible.
LEMMA JoinedTitle ==
    ASSUME NEW title \in Seq(Char)
    PROVE  FoldLeft(Joined, << >>, title) \in Seq(DOMAIN Bytes)
<1> DEFINE D == DOMAIN title
<1>1. PICK it : /\ FoldLeft(Joined, << >>, title) = it[D]
                /\ it[{}] = << >>
                /\ \A d \in SUBSET D : d # {} =>
                     it[d] = Joined(it[d \ {Max(d)}], title[Max(d)])
  BY FoldUnfolds
<1>2. /\ D \subseteq Nat /\ IsFiniteSet(D)
      /\ \A i \in D : title[i] \in Char
  <2>1. D = 1..Len(title) /\ Len(title) \in Nat
    OBVIOUS
  <2>2. IsFiniteSet(1..Len(title))
    BY <2>1, FS_Interval, 1 \in Int, Len(title) \in Int
  <2> QED
    BY <2>1, <2>2
<1> HIDE DEF D
<1> DEFINE Visible == Seq(DOMAIN Bytes)
           T == {n \in Nat : \E d \in SUBSET D : Cardinality(d) = n /\ it[d] \notin Visible}
<1>3. << >> \in Visible
  OBVIOUS
<1> HIDE DEF Visible
<1>4. T = {}
  <2> SUFFICES ASSUME T # {} PROVE FALSE
    OBVIOUS
  <2>1. PICK n \in T : \A k \in T : n <= k
    BY LeastNumber
  <2>2. PICK d \in SUBSET D : Cardinality(d) = n /\ it[d] \notin Visible
    OBVIOUS
  <2>3. d # {} /\ d \subseteq Nat /\ IsFiniteSet(d)
    BY <1>1, <1>2, <1>3, <2>2, FS_Subset
  <2> DEFINE rest == d \ {Max(d)}
  <2>4. /\ Max(d) \in d /\ rest \in SUBSET D
        /\ Cardinality(rest) = n - 1 /\ n - 1 \in Nat
    <3>1. Max(d) \in d
      BY <2>3, MaxIsThere
    <3>2. IsFiniteSet(rest) /\ Cardinality(rest) = n - 1
      BY <2>2, <2>3, <3>1, FS_RemoveElement
    <3>3. n - 1 \in Nat
      BY <3>2, FS_CardinalityType
    <3> QED
      BY <3>1, <3>2, <3>3
  <2>5. n - 1 \notin T
    <3>1. n \in Nat /\ ~(n <= n - 1)
      OBVIOUS
    <3> HIDE DEF T
    <3> QED
      BY <2>1, <3>1
  <2>6. it[rest] \in Visible
    BY <2>4, <2>5
  <2>7. title[Max(d)] \in Char
    BY <1>2, <2>4
  <2>8. Joined(it[rest], title[Max(d)]) \in Visible
    BY <2>6, <2>7, JoinedType DEF Visible
  <2>9. it[d] = Joined(it[rest], title[Max(d)])
    BY <1>1, <2>3
  <2> QED
    BY <2>2, <2>8, <2>9
<1>5. Cardinality(D) \in Nat /\ D \in SUBSET D
  BY <1>2, FS_CardinalityType
<1>6. it[D] \in Visible
  BY <1>4, <1>5
<1> QED
  BY <1>1, <1>6 DEF Visible

\* A stripped text is empty, or a part of the text between two characters
\* that are not stripped.
LEMMA StripIsAPart ==
    ASSUME NEW text \in Seq(DOMAIN Bytes)
    PROVE  \/ Strip(text) = << >>
           \/ \E a, b \in 1..Len(text) :
                /\ a <= b /\ Strip(text) = SubSeq(text, a, b)
                /\ text[a] \notin Trimmed /\ text[b] \notin Trimmed
<1> DEFINE kept == {i \in DOMAIN text : text[i] \notin Trimmed}
<1>1. DOMAIN text = 1..Len(text) /\ Len(text) \in Nat
  OBVIOUS
<1>2. Strip(text) = IF kept = {} THEN << >> ELSE SubSeq(text, Min(kept), Max(kept))
  BY DEF Strip
<1>3. ASSUME kept # {}
      PROVE  /\ Min(kept) \in kept /\ Max(kept) \in kept
             /\ Min(kept) <= Max(kept)
  <2>1. kept \subseteq Nat
    BY <1>1
  <2>2. IsFiniteSet(kept)
    <3>1. IsFiniteSet(1..Len(text))
      BY <1>1, FS_Interval, 1 \in Int, Len(text) \in Int
    <3>2. kept \in SUBSET (1..Len(text))
      BY <1>1
    <3> HIDE DEF kept
    <3> QED
      BY <3>1, <3>2, FS_Subset
  <2> HIDE DEF kept
  <2>3. Max(kept) \in kept
    BY <1>3, <2>1, <2>2, MaxIsThere
  <2>4. \E x \in kept : \A y \in kept : x <= y
    BY <1>3, <2>1, LeastNumber
  <2>5. Min(kept) \in kept /\ \A y \in kept : Min(kept) <= y
    BY <2>4 DEF Min
  <2> QED
    BY <2>3, <2>5
<1> QED
  BY <1>1, <1>2, <1>3

\* A part of a text has the text's characters and no more bytes.
LEMMA PartIsSmaller ==
    ASSUME NEW text \in Seq(DOMAIN Bytes), NEW a \in 1..Len(text),
           NEW b \in 1..Len(text), a <= b
    PROVE  LET part == SubSeq(text, a, b)
           IN  /\ part \in Seq(DOMAIN Bytes) /\ Len(part) = b - a + 1
               /\ part[1] = text[a] /\ part[Len(part)] = text[b]
               /\ Utf8(part) \in Nat /\ Utf8(text) \in Nat
               /\ Utf8(part) <= Utf8(text)
<1> DEFINE part == SubSeq(text, a, b)
           wide(t) == {i \in DOMAIN t : Bytes[t[i]] = 2}
<1>1. Len(text) \in Nat /\ DOMAIN text = 1..Len(text) /\ a \in Nat /\ b \in Nat
  OBVIOUS
<1>2. /\ part \in Seq(DOMAIN Bytes) /\ Len(part) = b - a + 1
      /\ DOMAIN part = 1..(b - a + 1)
      /\ \A i \in 1..(b - a + 1) : part[i] = text[a + i - 1]
  OBVIOUS
<1>3. part[1] = text[a] /\ part[Len(part)] = text[b]
  <2>1. /\ 1 \in 1..(b - a + 1) /\ a + 1 - 1 = a
        /\ b - a + 1 \in 1..(b - a + 1) /\ a + (b - a + 1) - 1 = b
    BY <1>1
  <2> HIDE DEF part
  <2>2. part[1] = text[a + 1 - 1]
    BY <1>2, <2>1
  <2>3. part[b - a + 1] = text[a + (b - a + 1) - 1]
    BY <1>2, <2>1
  <2> QED
    BY <1>2, <2>1, <2>2, <2>3
<1>4. ASSUME NEW t \in Seq(DOMAIN Bytes)
      PROVE  /\ IsFiniteSet(wide(t)) /\ Cardinality(wide(t)) \in Nat
             /\ Utf8(t) = Len(t) + Cardinality(wide(t)) /\ Utf8(t) \in Nat
  <2>1. DOMAIN t = 1..Len(t) /\ Len(t) \in Nat
    OBVIOUS
  <2>2. IsFiniteSet(1..Len(t))
    BY <2>1, FS_Interval, 1 \in Int, Len(t) \in Int
  <2>3. wide(t) \in SUBSET (1..Len(t))
    BY <2>1
  <2>4. Utf8(t) = Len(t) + Cardinality(wide(t))
    BY DEF Utf8
  <2> HIDE DEF wide
  <2>5. IsFiniteSet(wide(t)) /\ Cardinality(wide(t)) \in Nat
    BY <2>2, <2>3, FS_Subset, FS_CardinalityType
  <2> QED
    BY <2>1, <2>4, <2>5
<1> HIDE DEF part
<1>5. Cardinality(wide(part)) <= Cardinality(wide(text))
  <2> DEFINE f == [i \in wide(part) |-> a + i - 1]
  <2>1. \A i \in wide(part) : i \in Nat /\ a + i - 1 \in wide(text)
    <3> SUFFICES ASSUME NEW i \in wide(part)
                 PROVE  i \in Nat /\ a + i - 1 \in wide(text)
      OBVIOUS
    <3>1. i \in 1..(b - a + 1) /\ Bytes[part[i]] = 2
      BY <1>2
    <3>2. a + i - 1 \in 1..Len(text) /\ i \in Nat
      BY <1>1, <3>1
    <3>3. part[i] = text[a + i - 1]
      BY <1>2, <3>1
    <3> QED
      BY <1>1, <3>1, <3>2, <3>3
  <2> HIDE DEF wide
  <2>2. f \in [wide(part) -> wide(text)]
    BY <2>1
  <2>3. \A i, j \in wide(part) : f[i] = f[j] => i = j
    BY <1>1, <2>1
  <2>4. f \in Injection(wide(part), wide(text))
    BY <2>2, <2>3 DEF Injection, IsInjective
  <2> QED
    BY <1>4, <2>4, FS_Injection
<1> HIDE DEF wide
<1>6. Utf8(part) <= Utf8(text)
  BY <1>1, <1>2, <1>4, <1>5
<1> QED
  BY <1>2, <1>3, <1>4, <1>6 DEF part

\* The cut keeps the budget.
LEMMA CutKeepsBudget ==
    ASSUME NEW text \in Seq(DOMAIN Bytes), NEW budget \in Nat
    PROVE  /\ TruncateUtf8(text, budget) \in Seq(DOMAIN Bytes)
           /\ Utf8(TruncateUtf8(text, budget)) <= budget
<1> DEFINE fits == {n \in 0..Len(text) : Utf8(SubSeq(text, 1, n)) <= Max({budget, 0})}
<1>1. Len(text) \in Nat
  OBVIOUS
<1>2. Max({budget, 0}) = budget
  BY DEF Max
<1>3. 0 \in fits
  <2>1. SubSeq(text, 1, 0) = << >>
    BY <1>1
  <2>2. DOMAIN << >> = {} /\ Len(<< >>) = 0
    OBVIOUS
  <2>3. {i \in DOMAIN << >> : Bytes[<< >>[i]] = 2} = {}
    BY <2>2
  <2>4. Utf8(<< >>) = 0
    BY <2>2, <2>3, FS_EmptySet DEF Utf8
  <2>5. Utf8(SubSeq(text, 1, 0)) <= Max({budget, 0})
    <3>1. 0 <= Max({budget, 0})
      BY <1>2
    <3> QED
      BY <2>1, <2>4, <3>1
  <2> QED
    BY <1>1, <2>5
<1>4. IsFiniteSet(fits) /\ fits \subseteq Nat
  <2>1. IsFiniteSet(0..Len(text)) /\ fits \in SUBSET (0..Len(text))
    BY <1>1, FS_Interval, 0 \in Int, Len(text) \in Int
  <2>2. fits \subseteq Nat
    BY <1>1
  <2> HIDE DEF fits
  <2> QED
    BY <2>1, <2>2, FS_Subset
<1>5. Max(fits) \in fits
  <2> HIDE DEF fits
  <2> QED
    BY <1>3, <1>4, MaxIsThere
<1>6. TruncateUtf8(text, budget) = SubSeq(text, 1, Max(fits))
  BY DEF TruncateUtf8
<1>7. /\ Max(fits) \in 0..Len(text)
      /\ Utf8(SubSeq(text, 1, Max(fits))) <= budget
  BY <1>2, <1>5
<1> HIDE DEF fits
<1>8. SubSeq(text, 1, Max(fits)) \in Seq(DOMAIN Bytes)
  BY <1>1, <1>7
<1> QED
  BY <1>6, <1>7, <1>8

\* The name on disk and the name from a title, whatever the title.
LEMMA FilenameIsSafe ==
    ASSUME NEW title \in Title
    PROVE  LET stem == DeliveryFilename(title, MaxFilename, SuffixBytes)
           IN  /\ stem \in Seq(DOMAIN Bytes) /\ stem # << >>
               /\ Utf8(stem) + SuffixBytes <= MaxFilename
               /\ stem[1] \notin Trimmed /\ stem[Len(stem)] \notin Trimmed
<1> DEFINE budget == MaxFilename - SuffixBytes
           joined == FoldLeft(Joined, << >>, title)
           clean  == Sanitize(title)
           cut    == TruncateUtf8(clean, budget)
           bare   == Strip(cut)
           stem   == DeliveryFilename(title, MaxFilename, SuffixBytes)
<1>1. /\ budget \in Nat /\ budget >= 1 /\ title \in Seq(Char)
      /\ SuffixBytes \in Nat /\ MaxFilename \in Nat
  BY NameAssumption
<1>2. joined \in Seq(DOMAIN Bytes) /\ clean = Strip(joined)
  BY <1>1, JoinedTitle DEF Sanitize
<1>3. clean \in Seq(DOMAIN Bytes)
  <2> HIDE DEF joined, clean
  <2>1. << >> \in Seq(DOMAIN Bytes)
    OBVIOUS
  <2>2. ASSUME NEW a \in 1..Len(joined), NEW b \in 1..Len(joined), a <= b
        PROVE  SubSeq(joined, a, b) \in Seq(DOMAIN Bytes)
    BY <1>2, <2>2, PartIsSmaller
  <2> QED
    BY <1>2, <2>1, <2>2, StripIsAPart
<1>4. cut \in Seq(DOMAIN Bytes) /\ Utf8(cut) <= budget
  <2> HIDE DEF clean, budget
  <2> QED
    BY <1>1, <1>3, CutKeepsBudget
<1>5. stem = IF bare = << >> THEN DiskStem ELSE bare
  BY DEF DeliveryFilename
<1> HIDE DEF cut, clean, joined
<1>6. CASE bare = << >>
  <2>1. stem = <<"letter">>
    BY <1>5, <1>6 DEF DiskStem
  <2>2. /\ Bytes["letter"] = 1 /\ "letter" \in DOMAIN Bytes /\ "letter" \notin Trimmed
    BY DEF Bytes, Trimmed
  <2> DEFINE s == <<"letter">>
  <2>3. s \in Seq(DOMAIN Bytes) /\ s # << >> /\ Len(s) = 1 /\ s[1] = "letter"
        /\ DOMAIN s = {1}
    BY <2>2
  <2> HIDE DEF s
  <2>4. {i \in DOMAIN s : Bytes[s[i]] = 2} = {}
    BY <2>2, <2>3
  <2>5. Utf8(s) = 1
    <3>1. Utf8(s) = Len(s) + Cardinality({i \in DOMAIN s : Bytes[s[i]] = 2})
      BY DEF Utf8
    <3>2. Utf8(s) = 1 + 0
      BY <2>3, <2>4, <3>1, FS_EmptySet
    <3> QED
      BY <3>2
  <2>6. stem = s
    BY <2>1 DEF s
  <2> HIDE DEF stem
  <2>7. Utf8(s) + SuffixBytes <= MaxFilename
    BY <1>1, <2>5
  <2> QED
    BY <2>2, <2>3, <2>6, <2>7 DEF stem
<1>7. CASE bare # << >>
  <2>1. PICK a, b \in 1..Len(cut) :
           /\ a <= b /\ bare = SubSeq(cut, a, b)
           /\ cut[a] \notin Trimmed /\ cut[b] \notin Trimmed
    BY <1>4, <1>7, StripIsAPart
  <2> HIDE DEF bare
  <2>2. /\ bare \in Seq(DOMAIN Bytes)
        /\ bare[1] = cut[a] /\ bare[Len(bare)] = cut[b]
        /\ Utf8(bare) \in Nat /\ Utf8(cut) \in Nat /\ Utf8(bare) <= Utf8(cut)
    BY <1>4, <2>1, PartIsSmaller
  <2>3. Utf8(bare) + SuffixBytes <= MaxFilename
    BY <1>1, <1>4, <2>2
  <2>4. stem = bare
    BY <1>5, <1>7
  <2> HIDE DEF stem
  <2> QED
    BY <1>7, <2>1, <2>2, <2>3, <2>4 DEF stem
<1> QED
  BY <1>6, <1>7

-----------------------------------------------------------------------------
\* A listing without a figure is a listing, of nothing that has a size.
LEMMA NoListingIsOne == NoListing \in Listing /\ ~Sized(NoListing)
<1>1. NoEntry \in Entry
  BY DEF NoEntry, Entry
<1>2. NoListing \in Listing
  BY <1>1 DEF NoListing, Listing, Requested
<1>3. NoListing.requested = << >> /\ NoListing.whole = NoEntry
  BY DEF NoListing
<1>4. Parts(NoListing) = <<NoEntry>>
  BY <1>3, Zenon DEF Parts
<1>5. Said(NoEntry) = Nothing
  BY DEF Said, NoEntry, Nothing
<1>6. ~Sized(NoListing)
  <2>1. 1 \in DOMAIN <<NoEntry>> /\ <<NoEntry>>[1] = NoEntry
    OBVIOUS
  <2> QED
    BY <1>4, <1>5, <2>1, Zenon DEF Sized
<1> QED
  BY <1>2, <1>6

\* The steps that end in an error the user reads.  Nothing else is decided
\* then, and the error of a row that cannot be read is none of them.
LEMMA RefusalInv ==
    ASSUME MediaInv, pc # "refused", pc # "delivered",
           pc' = "refused", told' \notin {NoError, "error-internal"},
           link' = link \/ link' \in Link,
           listing' \in Listing,
           message' \subseteq Wording,
           message' # {} => told' = Classified(message)',
           UNCHANGED <<formats, side, picked, row, spec, child, file, result,
                       sent>>
    PROVE  MediaInv'
<1> USE DEF MediaInv
<1>1. TypeOK'
  BY DEF TypeOK
<1>2. PickedIsFetched'
  BY DEF PickedIsFetched
<1>3. StageInv'
  BY DEF StageInv
<1>4. FileInv'
  BY DEF FileInv
<1> QED
  BY <1>1, <1>2, <1>3, <1>4

\* The key of an error is the user's, and it is never the internal one.
LEMMA KeyOfMessage ==
    ASSUME MediaInv, NEW m, m \subseteq Wording
    PROVE  /\ link.photo \in BOOLEAN
           /\ Classified(m) \in {"error-private", "error-age", "error-geo",
                                 "error-unavailable", "error-unsupported-media",
                                 "error-unsupported-site",
                                 "error-extraction-failed"}
<1>1. link.photo \in BOOLEAN
  <2>1. CASE link = NoLink
    BY <2>1 DEF NoLink
  <2>2. CASE link \in Link
    BY <2>2, LinkAssumption
  <2>3. ASSUME NEW l \in Link,
               link = [NoLink EXCEPT !.photo = l.photo, !.words = l.words]
        PROVE  link.photo \in BOOLEAN
    <3>1. link.photo = l.photo
      BY <2>3 DEF NoLink
    <3> QED
      BY <3>1, LinkAssumption
  <2> QED
    BY <2>1, <2>2, <2>3 DEF MediaInv, TypeOK
<1>2. Classified(m) \in {"error-private", "error-age", "error-geo",
                         "error-unavailable", "error-unsupported-media",
                         "error-unsupported-site", "error-extraction-failed"}
  BY <1>1, ClassifiedInOrder DEF Classified, ErrorKey
<1> QED
  BY <1>1, <1>2

\* The edge of the bot.
LEMMA SubmitInv ==
    ASSUME MediaInv, NEW l \in Link, Submit(l)
    PROVE  MediaInv'
<1>1. CASE Tell("error-bad-url")
  <2>1. message' = {} /\ listing' \in Listing
    BY DEF Submit, MediaInv, StageInv, TypeOK
  <2>2. /\ pc = "new" /\ pc' = "refused" /\ told' = "error-bad-url"
        /\ link' \in Link
        /\ UNCHANGED <<formats, side, picked, row, spec, child, file, result,
                       sent>>
    BY <1>1 DEF Submit, Tell
  <2> QED
    BY <2>1, <2>2, RefusalInv DEF NoError
<1>2. CASE pc' \in {"admitted", "raised"} /\ UNCHANGED told
  <2> USE DEF MediaInv, Submit
  <2>1. TypeOK'
    BY <1>2 DEF TypeOK
  <2>2. PickedIsFetched'
    BY <1>2 DEF PickedIsFetched
  <2>3. StageInv' /\ FileInv'
    BY <1>2 DEF StageInv, FileInv
  <2> QED
    BY <2>1, <2>2, <2>3
<1> QED
  BY <1>1, <1>2 DEF Submit

\* The card.
LEMMA GetPreviewInv ==
    ASSUME MediaInv, GetPreview
    PROVE  MediaInv'
<1> USE DEF MediaInv, GetPreview
<1>1. TypeOK'
  <2>1. side' \in Side
    BY ShortSideIsReached DEF Side
  <2>2. link \in Link
    BY DEF StageInv
  <2>3. \E l \in Link :
          link' = [NoLink EXCEPT !.photo = l.photo, !.words = l.words]
    BY <2>2
  <2>4. formats' \subseteq Format
    OBVIOUS
  <2> QED
    BY <2>1, <2>3, <2>4 DEF TypeOK
<1>2. PickedIsFetched'
  BY DEF PickedIsFetched
<1>3. StageInv'
  BY DEF StageInv
<1>4. FileInv'
  BY DEF FileInv
<1> QED
  BY <1>1, <1>2, <1>3, <1>4

\* The tap.
LEMMA ConfirmInv ==
    ASSUME MediaInv, NEW tapped \in DownloadSpec, Confirm(tapped)
    PROVE  MediaInv'
<1> USE DEF MediaInv
<1>1. /\ pc = "offered" /\ pc' = "stored" /\ picked' = tapped
      /\ row' = CreateRow(tapped, "unknown") /\ formats' = {} /\ side' = NoSide
      /\ UNCHANGED <<link, spec, child, listing, file, result, message, sent, told>>
  BY DEF Confirm
<1>2. TypeOK'
  BY <1>1 DEF TypeOK, Side, NoSide
<1>3. child = NoSpec /\ spec = NoSpec /\ told = NoError
  BY <1>1 DEF StageInv, TypeOK
<1>4. PickedIsFetched'
  BY <1>1, <1>3 DEF PickedIsFetched, NoError
<1>5. StageInv'
  BY <1>1, <1>3 DEF StageInv
<1>6. FileInv'
  BY <1>1 DEF FileInv
<1> QED
  BY <1>2, <1>4, <1>5, <1>6

\* The row in the hands of another build.
LEMMA CorruptInv ==
    ASSUME MediaInv, Corrupt
    PROVE  MediaInv'
<1> USE DEF MediaInv
<1>1. /\ pc = "stored" /\ row' \in Unknown
      /\ UNCHANGED <<pc, link, formats, side, picked, spec, child, listing, file,
                     result, message, sent, told>>
  BY DEF Corrupt
<1>2. TypeOK'
  BY <1>1 DEF TypeOK
<1>3. child = NoSpec /\ told = NoError
  BY <1>1 DEF StageInv, TypeOK
<1>4. PickedIsFetched'
  BY <1>1, <1>3 DEF PickedIsFetched, NoError
<1>5. Unknown' = Unknown
  BY <1>1 DEF Unknown
<1>6. StageInv'
  BY <1>1, <1>5 DEF StageInv, Classified
<1>7. FileInv'
  BY <1>1 DEF FileInv
<1> QED
  BY <1>2, <1>4, <1>6, <1>7

\* The worker reads the row: either it is the user's choice that comes out,
\* through the columns and through the two strings, or nothing does.
LEMMA LoadRequestInv ==
    ASSUME MediaInv, LoadRequest
    PROVE  MediaInv'
<1> USE DEF MediaInv
<1>1. /\ pc = "stored"
      /\ UNCHANGED <<link, formats, side, picked, listing, file, result, message,
                     sent>>
  BY DEF LoadRequest
<1>2. /\ picked \in DownloadSpec /\ spec = NoSpec /\ child = NoSpec
      /\ row = CreateRow(picked, "unknown") \/ row \in Unknown
      /\ sent = NoSent /\ message = {} /\ told = NoError
  BY <1>1 DEF StageInv, TypeOK
<1>3. CASE Readable(row)
  <2> DEFINE s == SpecFromParts(row.kind, row.tier)
  <2>1. /\ spec' = s /\ child' = SpecFromParts(SpecKind(s), SpecVideoTier(s))
        /\ row' = NoRow /\ pc' = "weighing" /\ told' = told
    BY <1>3 DEF LoadRequest, ToEntity
  <2>2. s = picked
    <3>1. CASE row = CreateRow(picked, "unknown")
      <4>1. row.kind = SpecKind(picked) /\ row.tier = SpecVideoTier(picked)
        BY <3>1 DEF CreateRow
      <4> QED
        BY <1>2, <4>1, SpecRoundTrip
    <3>2. CASE row \in Unknown
      <4>1. [kind |-> row.kind, tier |-> row.tier] \notin DownloadSpec \ {picked}
        BY <3>2 DEF Unknown
      <4>2. s = [kind |-> row.kind, tier |-> row.tier] /\ s \in DownloadSpec
        BY <1>3, SpecRoundTrip DEF Readable
      <4> QED
        BY <4>1, <4>2
    <3> QED
      BY <1>2, <3>1, <3>2
  <2> HIDE DEF s
  <2>3. child' = picked
    BY <1>2, <2>1, <2>2, SpecRoundTrip
  <2>4. TypeOK'
    BY <1>1, <1>2, <2>1, <2>2, <2>3 DEF TypeOK
  <2>5. PickedIsFetched'
    BY <1>1, <1>2, <2>1, <2>2, <2>3 DEF PickedIsFetched, NoError
  <2>6. StageInv'
    BY <1>1, <1>2, <2>1, <2>2, <2>3 DEF StageInv
  <2>7. FileInv'
    BY <2>1 DEF FileInv
  <2> QED
    BY <2>4, <2>5, <2>6, <2>7
<1>4. CASE ~Readable(row)
  <2>1. /\ told' = "error-internal" /\ pc' = "refused"
        /\ UNCHANGED <<row, spec, child>>
    BY <1>4 DEF LoadRequest, Tell, ErrorKey
  <2>2. \/ row.status # "pending"
        \/ [kind |-> row.kind, tier |-> row.tier] # picked
    <3> SUFFICES ASSUME [kind |-> row.kind, tier |-> row.tier] = picked
                 PROVE  row.status # "pending"
      OBVIOUS
    <3>1. row.kind = picked.kind /\ row.tier = picked.tier
      OBVIOUS
    <3>2. SpecFromParts(row.kind, row.tier) # NoSpec
      BY <1>2, <3>1, SpecRoundTrip
    <3> QED
      BY <1>4, <3>2 DEF Readable, StoredStatus
  <2>3. TypeOK'
    BY <1>1, <2>1 DEF TypeOK, NoError
  <2>4. PickedIsFetched'
    BY <1>1, <1>2, <2>1, <2>2 DEF PickedIsFetched
  <2>5. StageInv'
    BY <1>1, <1>2, <2>1 DEF StageInv
  <2>6. FileInv'
    BY <2>1 DEF FileInv
  <2> QED
    BY <2>3, <2>4, <2>5, <2>6
<1> QED
  BY <1>3, <1>4

\* The child's first look at the size.
LEMMA WeighInv ==
    ASSUME MediaInv, Weigh
    PROVE  MediaInv'
<1>1. /\ pc = "weighing"
      /\ UNCHANGED <<link, formats, side, picked, row, spec, child, file, result,
                     message, sent>>
  BY DEF Weigh
<1>2. /\ listing' \in Listing
      /\ \/ told' = "error-too-large" /\ pc' = "refused"
         \/ pc' = "downloading" /\ told' = told
  BY NoListingIsOne DEF Weigh, Tell, ErrorKey
<1>3. message' = {}
  BY <1>1 DEF MediaInv, StageInv
<1>4. CASE told' = "error-too-large" /\ pc' = "refused"
  BY <1>1, <1>2, <1>3, <1>4, RefusalInv DEF NoError
<1>5. CASE pc' = "downloading" /\ told' = told
  <2> USE DEF MediaInv
  <2>1. TypeOK'
    BY <1>1, <1>2, <1>5 DEF TypeOK
  <2>2. PickedIsFetched'
    BY <1>1, <1>5 DEF PickedIsFetched
  <2>3. StageInv' /\ FileInv'
    BY <1>1, <1>3, <1>5 DEF StageInv, FileInv
  <2> QED
    BY <2>1, <2>2, <2>3
<1> QED
  BY <1>2, <1>4, <1>5

\* yt-dlp's failure.
LEMMA YtDlpRaisesInv ==
    ASSUME MediaInv, NEW m, m \subseteq Wording, YtDlpRaises(m)
    PROVE  MediaInv'
<1>1. /\ pc \in {"admitted", "weighing", "downloading"} /\ pc' = "refused"
      /\ message' = m /\ told' = Classified(m)
      /\ listing' = NoListing
      /\ UNCHANGED <<link, formats, side, picked, row, spec, child, file, result,
                     sent>>
  BY DEF YtDlpRaises, Tell
<1>2. Classified(m) \notin {NoError, "error-internal"}
  BY KeyOfMessage DEF NoError
<1>3. Classified(message)' = Classified(m)
  BY <1>1 DEF Classified
<1>4. listing' \in Listing
  BY <1>1, NoListingIsOne
<1> QED
  BY <1>1, <1>2, <1>3, <1>4, RefusalInv

\* The download: the file is what the options of the child's spec make it.
LEMMA DownloadInv ==
    ASSUME MediaInv, Download
    PROVE  MediaInv'
<1> USE DEF MediaInv
<1>1. /\ pc = "downloading" /\ pc' = "written" /\ listing' = NoListing
      /\ UNCHANGED <<link, formats, side, picked, row, spec, child, result,
                     message, sent, told>>
  BY DEF Download
<1>2. child = picked /\ picked \in DownloadSpec
  BY <1>1 DEF StageInv
<1>3. /\ file'.size \in Size
      /\ file'.sound <=> picked.kind = "audio"
      /\ file'.facts \in [width : Int, height : Int, duration : Length]
      /\ picked.kind = "video" => /\ file'.facts.width = Picture.width
                                  /\ file'.facts.height = Picture.height
  <2> DEFINE opts == BuildDownloadYdlOpts(child, Limit)
             facts(length) == IF opts.extractAudio
                              THEN [NoFacts EXCEPT !.duration = length]
                              ELSE [Picture EXCEPT !.duration = length]
  <2>1. opts.extractAudio <=> child.kind = "audio"
    BY DEF BuildDownloadYdlOpts
  <2>2. PICK size \in Size, length \in Length, there \in BOOLEAN :
          file' = [path  |-> IF there THEN "final" ELSE "",
                   sound |-> opts.extractAudio, size |-> size,
                   facts |-> facts(length)]
    BY Zenon DEF Download
  <2> HIDE DEF opts
  <2>3. /\ file'.sound = opts.extractAudio /\ file'.facts = facts(length)
        /\ file'.size \in Size
    BY <2>2
  <2>4. facts(length) \in [width : Int, height : Int, duration : Length]
    BY DEF NoFacts, Picture, Nothing
  <2>5. ~opts.extractAudio => /\ facts(length).width = Picture.width
                              /\ facts(length).height = Picture.height
    BY DEF Picture
  <2>6. file'.sound <=> picked.kind = "audio"
    BY <1>2, <2>1, <2>3
  <2> HIDE DEF facts
  <2> QED
    BY <1>2, <2>1, <2>3, <2>4, <2>5, <2>6
<1>4. TypeOK'
  BY <1>1, NoListingIsOne DEF TypeOK
<1>5. PickedIsFetched'
  BY <1>1 DEF PickedIsFetched
<1>6. StageInv'
  BY <1>1 DEF StageInv
<1>7. FileInv'
  BY <1>1, <1>3 DEF FileInv
<1> QED
  BY <1>4, <1>5, <1>6, <1>7

\* The child's report.
LEMMA ReportInv ==
    ASSUME MediaInv, Report
    PROVE  MediaInv'
<1>1. /\ pc = "written"
      /\ UNCHANGED <<link, formats, side, picked, row, spec, child, listing, file,
                     message, sent>>
  BY DEF Report
<1>2. child = picked /\ picked.kind \in Kind /\ message = {}
  BY <1>1, SpecRoundTrip DEF MediaInv, StageInv
<1>3. /\ file.size \in Size
      /\ file.sound <=> picked.kind = "audio"
      /\ file.facts \in [width : Int, height : Int, duration : Length]
      /\ picked.kind = "video" => /\ file.facts.width = Picture.width
                                  /\ file.facts.height = Picture.height
  BY <1>1 DEF MediaInv, FileInv
<1>4. \/ told' = "error-extraction-failed" /\ pc' = "refused" /\ result' = result
      \/ /\ pc' = "reported" /\ told' = told
         /\ \E info \in Info(file.facts), probed \in Probe(file.facts) :
              result' = [path  |-> file.path,
                         facts |-> MediaFacts(SpecKind(child), info, probed)]
  BY DEF Report, Tell, ErrorKey
<1>5. CASE told' = "error-extraction-failed" /\ pc' = "refused" /\ result' = result
  <2>1. listing' \in Listing
    BY <1>1 DEF MediaInv, TypeOK
  <2> QED
    BY <1>1, <1>2, <1>5, <2>1, RefusalInv DEF NoError
<1>6. ASSUME pc' = "reported", told' = told,
             NEW info \in Info(file.facts), NEW probed \in Probe(file.facts),
             result' = [path  |-> file.path,
                        facts |-> MediaFacts(SpecKind(child), info, probed)]
      PROVE  MediaInv'
  <2> USE DEF MediaInv
  <2>1. /\ result'.path = file.path
        /\ result'.facts = MediaFacts(picked.kind, info, probed)
    BY <1>2, <1>6 DEF SpecKind
  <2>2. /\ Rounds(result'.facts.duration, file.facts.duration)
        /\ picked.kind = "video" =>
               /\ Rounds(result'.facts.width, Picture.width)
               /\ Rounds(result'.facts.height, Picture.height)
    BY <1>2, <1>3, <1>6, <2>1, FactsAreRounded
  <2>3. TypeOK'
    BY <1>1, <1>6 DEF TypeOK
  <2>4. PickedIsFetched'
    BY <1>1, <1>6 DEF PickedIsFetched
  <2>5. StageInv'
    BY <1>1, <1>6 DEF StageInv
  <2>6. FileInv'
    BY <1>1, <1>3, <1>6, <2>1, <2>2 DEF FileInv
  <2> QED
    BY <2>3, <2>4, <2>5, <2>6
<1> QED
  BY <1>4, <1>5, <1>6

\* The delivery.
LEMMA SendFileInv ==
    ASSUME MediaInv, SendFile
    PROVE  MediaInv'
<1>1. /\ pc = "reported"
      /\ UNCHANGED <<link, formats, side, picked, row, spec, child, listing, file,
                     result, message>>
  BY DEF SendFile
<1>2. CASE file.size > Limit
  <2>1. /\ told' = "error-delivery-failed" /\ pc' = "refused" /\ sent' = sent
    BY <1>2 DEF SendFile, Tell
  <2>2. listing' \in Listing /\ message' = {}
    BY <1>1 DEF MediaInv, TypeOK, StageInv
  <2> QED
    BY <1>1, <2>1, <2>2, RefusalInv DEF NoError
<1>3. CASE ~(file.size > Limit)
  <2> USE DEF MediaInv
  <2> DEFINE facts == FromResult(SpecKind(spec), result.facts)
  <2>1. PICK title \in Title :
          sent' = [method |-> Method(SpecKind(spec), facts), facts |-> facts,
                   stem |-> DeliveryFilename(title, MaxFilename, SuffixBytes)]
    BY <1>3, Zenon DEF SendFile
  <2>2. pc' = "delivered" /\ told' = told
    BY <1>3 DEF SendFile
  <2>3. spec = picked
    BY <1>1 DEF StageInv
  <2>4. /\ sent'.facts = FromResult(picked.kind, result.facts)
        /\ sent'.method = Method(picked.kind, sent'.facts)
    BY <2>1, <2>3 DEF SpecKind
  <2>5. sent'.method \in {"none", "video", "audio", "document"}
    BY <2>4 DEF Method
  <2>6. TypeOK'
    BY <1>1, <2>2, <2>5 DEF TypeOK
  <2>7. PickedIsFetched'
    BY <1>1, <2>2 DEF PickedIsFetched
  <2>8. StageInv'
    BY <1>1, <2>2 DEF StageInv
  <2>9. FileInv'
    <3>1. file.size \in Size
      BY <1>1 DEF FileInv
    <3>2. file.size \in Nat /\ Limit \in Nat
      BY <3>1
    <3> HIDE DEF MediaInv
    <3>3. file.size <= Limit
      BY <1>3, <3>2
    <3> QED
      BY <1>1, <2>2, <2>4, <3>1, <3>3 DEF MediaInv, FileInv
  <2> QED
    BY <2>6, <2>7, <2>8, <2>9
<1> QED
  BY <1>2, <1>3

LEMMA TelegramRefusesInv ==
    ASSUME MediaInv, TelegramRefuses
    PROVE  MediaInv'
<1>1. /\ pc = "reported" /\ pc' = "refused" /\ told' = "error-delivery-failed"
      /\ UNCHANGED <<link, formats, side, picked, row, spec, child, listing, file,
                     result, message, sent>>
  BY DEF TelegramRefuses, Tell
<1>2. listing' \in Listing /\ message' = {}
  BY <1>1 DEF MediaInv, TypeOK, StageInv
<1> QED
  BY <1>1, <1>2, RefusalInv DEF NoError

-----------------------------------------------------------------------------
(***************************************************************************)
(* What every step decides is kept: the types, the user's choice unchanged *)
(* on its way to the child, and what the stages hand on to each other.     *)
(***************************************************************************)
THEOREM MediaInvariance == Spec => []MediaInv
<1>1. Init => MediaInv
  <2> SUFFICES ASSUME Init PROVE MediaInv
    OBVIOUS
  <2> USE DEF Init
  <2>1. TypeOK
    BY NoListingIsOne DEF TypeOK, Side, NoSide, NoSent
  <2>2. PickedIsFetched
    BY DEF PickedIsFetched, NoError
  <2>3. StageInv
    BY DEF StageInv
  <2>4. FileInv
    BY DEF FileInv
  <2> QED
    BY <2>1, <2>2, <2>3, <2>4 DEF MediaInv
<1>2. MediaInv /\ [Next]_vars => MediaInv'
  <2> SUFFICES ASSUME MediaInv, [Next]_vars PROVE MediaInv'
    OBVIOUS
  <2>1. ASSUME NEW l \in Link, Submit(l) PROVE MediaInv'
    BY <2>1, SubmitInv
  <2>2. CASE GetPreview
    BY <2>2, GetPreviewInv
  <2>3. ASSUME NEW tapped \in DownloadSpec, Confirm(tapped) PROVE MediaInv'
    BY <2>3, ConfirmInv
  <2>4. CASE Corrupt
    BY <2>4, CorruptInv
  <2>5. CASE LoadRequest
    BY <2>5, LoadRequestInv
  <2>6. CASE Weigh
    BY <2>6, WeighInv
  <2>7. ASSUME NEW m \in SUBSET Wording, YtDlpRaises(m) PROVE MediaInv'
    BY <2>7, YtDlpRaisesInv
  <2>8. CASE Download
    BY <2>8, DownloadInv
  <2>9. CASE Report
    BY <2>9, ReportInv
  <2>10. CASE SendFile
    BY <2>10, SendFileInv
  <2>11. CASE TelegramRefuses
    BY <2>11, TelegramRefusesInv
  <2>12. CASE UNCHANGED vars
    <3> USE <2>12 DEF vars
    <3>1. TypeOK' /\ PickedIsFetched'
      BY DEF MediaInv, TypeOK, PickedIsFetched
    <3>2. StageInv'
      <4>1. Unknown' = Unknown /\ Classified(message)' = Classified(message)
        BY DEF Unknown, Classified
      <4> QED
        BY <4>1 DEF MediaInv, StageInv
    <3>3. FileInv'
      BY DEF MediaInv, FileInv
    <3> QED
      BY <3>1, <3>2, <3>3 DEF MediaInv
  <2> QED
    BY <2>1, <2>2, <2>3, <2>4, <2>5, <2>6, <2>7, <2>8, <2>9, <2>10, <2>11, <2>12
       DEF Next
<1> QED
  BY <1>1, <1>2, PTL DEF Spec

(***************************************************************************)
(* A tier on the card is one the source has, in the codec that plays       *)
(* inline whenever the source has a sized format in that.                  *)
(***************************************************************************)
THEOREM CardIsKept == Spec => []CardKeepsItsPromise
<1>1. MediaInv => CardKeepsItsPromise
  <2> SUFFICES ASSUME MediaInv, pc = "offered",
                      NEW t \in TiersFor(side)
               PROVE  LET reaches(f, n) == /\ f.vcodec # "none"
                                           /\ f.width >= n /\ f.height >= n
                          inline    == {f \in formats : /\ f.vcodec = CompatibleCodec
                                                        /\ reaches(f, 1)}
                          target(u) == IF u = "best" THEN ShortSide.p720 + 1
                                       ELSE ShortSide[u]
                      IN  \E f \in formats : /\ reaches(f, target(t))
                                             /\ inline # {} => f \in inline
    BY DEF CardKeepsItsPromise
  <2> DEFINE reaches(f, n) == f.vcodec # "none" /\ f.width >= n /\ f.height >= n
             inline    == {f \in formats : f.vcodec = CompatibleCodec /\ reaches(f, 1)}
             target(u) == IF u = "best" THEN ShortSide.p720 + 1 ELSE ShortSide[u]
             sized == {f \in formats : f.vcodec # "none" /\ f.width > 0 /\ f.height > 0}
             own   == {f \in sized : f.vcodec = CompatibleCodec}
  <2>1. formats \subseteq Format /\ side = MaxCompatibleShortSide(formats)
    BY DEF MediaInv, TypeOK, StageInv
  <2>2. /\ side \in Nat
        /\ side # NoSide =>
             \E f \in sized : /\ f.width >= side /\ f.height >= side
                              /\ own # {} => f \in own
    BY <2>1, ShortSideIsReached, Zenon
  <2>3. side > 720 /\ target(t) \in Nat /\ target(t) <= side
    BY <2>2 DEF TiersFor, ShortSide
  <2>4. \A f \in formats : f.width \in Nat /\ f.height \in Nat
    BY <2>1, FormatAssumption
  <2>5. inline = own
    BY <2>4
  <2> HIDE DEF target, own
  <2>6. PICK f \in sized : /\ f.width >= side /\ f.height >= side
                           /\ own # {} => f \in own
    BY <2>2, <2>3 DEF NoSide
  <2>7. f \in formats /\ reaches(f, target(t)) /\ (inline # {} => f \in inline)
    BY <2>2, <2>3, <2>4, <2>5, <2>6
  <2> QED
    BY <2>7, Zenon DEF target
<1> QED
  BY <1>1, MediaInvariance, PTL

(***************************************************************************)
(* What a player gets is what was asked for, with the facts it needs, and  *)
(* the facts sent with a file are the file's own, to half a unit.          *)
(***************************************************************************)
THEOREM AskedIsDelivered == Spec => []DeliveredAsAsked
<1>1. MediaInv => DeliveredAsAsked
  <2> SUFFICES ASSUME MediaInv PROVE DeliveredAsAsked
    OBVIOUS
  <2>1. CASE pc # "delivered"
    <3>1. sent = NoSent
      BY <2>1 DEF MediaInv, StageInv
    <3>2. sent.method = "none" /\ \A f \in DOMAIN sent.facts : sent.facts[f] = Nothing
      BY <3>1 DEF NoSent, NoFacts
    <3> QED
      BY <3>2 DEF DeliveredAsAsked, FactsAreTheFiles
  <2>2. CASE pc = "delivered"
    <3>1. /\ file.sound <=> picked.kind = "audio"
          /\ file.facts \in [width : Int, height : Int, duration : Length]
          /\ picked.kind = "video" => /\ file.facts.width = Picture.width
                                      /\ file.facts.height = Picture.height
          /\ result.path = file.path
          /\ Rounds(result.facts.duration, file.facts.duration)
          /\ picked.kind = "video" =>
                 /\ Rounds(result.facts.width, Picture.width)
                 /\ Rounds(result.facts.height, Picture.height)
          /\ sent.facts = FromResult(picked.kind, result.facts)
          /\ sent.method = Method(picked.kind, sent.facts)
      BY <2>2 DEF MediaInv, FileInv
    <3>2. Picture.width = 6 /\ Picture.height = 4
      BY DEF Picture
    <3>3. /\ DOMAIN sent.facts = {"width", "height", "duration"}
          /\ sent.facts.duration = result.facts.duration
          /\ picked.kind = "video" => /\ sent.facts.width = result.facts.width
                                      /\ sent.facts.height = result.facts.height
          /\ picked.kind # "video" => /\ sent.facts.width = Nothing
                                      /\ sent.facts.height = Nothing
      BY <3>1 DEF FromResult
    <3>4. FactsAreTheFiles
      BY <3>1, <3>2, <3>3 DEF FactsAreTheFiles, Rounds
    <3>5. sent.method = "video" =>
             /\ picked.kind = "video"
             /\ sent.facts.width > 0 /\ sent.facts.height > 0
             /\ sent.facts.duration >= 0
      BY <3>1, <3>2, <3>3 DEF Method, IsPlayableVideo, IsPlayableAudio, Rounds, Nothing
    <3>6. sent.method = "audio" => picked.kind = "audio" /\ sent.facts.duration >= 0
      BY <3>1, <3>3 DEF Method, IsPlayableVideo, IsPlayableAudio, Rounds, Nothing
    <3> QED
      BY <3>1, <3>4, <3>5, <3>6 DEF DeliveredAsAsked
  <2> QED
    BY <2>1, <2>2
<1> QED
  BY <1>1, MediaInvariance, PTL

(***************************************************************************)
(* The error a user reads fits yt-dlp's message, for every message that    *)
(* the wordings make up.                                                   *)
(***************************************************************************)
THEOREM ErrorsFit == Spec => []ErrorFitsMessage
<1>1. MediaInv => ErrorFitsMessage
  <2> SUFFICES ASSUME MediaInv, message # {} PROVE ErrorFitsMessage
    BY DEF ErrorFitsMessage
  <2>1. message \subseteq Wording /\ told = Classified(message)
    BY DEF MediaInv, TypeOK, StageInv
  <2>2. link.photo \in BOOLEAN
    BY <2>1, KeyOfMessage
  <2>3. told =
          IF "private" \in message THEN "error-private"
          ELSE IF "age" \in message THEN "error-age"
          ELSE IF "geo" \in message THEN "error-geo"
          ELSE IF "unavailable" \in message THEN "error-unavailable"
          ELSE IF "no_media" \in message THEN "error-unsupported-media"
          ELSE IF "unsupported_url" \notin message THEN "error-extraction-failed"
          ELSE IF link.photo \/ "photo" \in message THEN "error-unsupported-media"
          ELSE "error-unsupported-site"
    BY <2>1, <2>2, ClassifiedInOrder DEF Classified, ErrorKey
  <2>4. Wording = {"private", "age", "geo", "unavailable", "no_media",
                   "unsupported_url", "photo"}
    BY DEF Wording, Signatures
  <2>5. told = "error-extraction-failed" => message \subseteq {"photo"}
    BY <2>1, <2>3, <2>4
  <2> QED
    BY <2>3, <2>5 DEF ErrorFitsMessage
<1> QED
  BY <1>1, MediaInvariance, PTL

(***************************************************************************)
(* A request ends with "too large" exactly when the size of every part is  *)
(* known and they have more bytes than may be delivered: for every limit,  *)
(* zero included, and every set of sizes.                                  *)
(***************************************************************************)
THEOREM LimitIsKnown == Spec => []TooLargeIsCertain
<1> DEFINE Above(info) == /\ Limit > 0 /\ Sized(info)
                          /\ Cardinality(BytesOf(info)) > Limit
<1>1. ~Above(NoListing)
  BY NoListingIsOne
<1>2. ASSUME NEW info \in Listing
      PROVE  TooLarge(info, Limit) <=> Above(info)
  <2>1. Limit \in Nat
    BY SizeAssumption
  <2> DEFINE size == EstimateTotalFilesize(info)
             bytes == Cardinality(BytesOf(info))
  <2>2. /\ Sized(info) => bytes \in Nat /\ size = bytes
        /\ ~Sized(info) => size = Nothing
    BY EstimateIsTheBytes
  <2>3. TooLarge(info, Limit) <=> Limit > 0 /\ size > Limit
    BY DEF TooLarge
  <2>4. Above(info) <=> Limit > 0 /\ Sized(info) /\ bytes > Limit
    OBVIOUS
  <2> HIDE DEF size, bytes, Above
  <2> QED
    BY <2>1, <2>2, <2>3, <2>4 DEF Nothing
<1>3. TooLargeIsCertain <=> (told = "error-too-large" <=> Above(listing))
  BY DEF TooLargeIsCertain
<1>4. TooLargeIsCertain' <=> (told' = "error-too-large" <=> Above(listing'))
  BY DEF TooLargeIsCertain, Sized, BytesOf, Parts
<1> HIDE DEF Above
<1>5. Init => TooLargeIsCertain
  <2> SUFFICES ASSUME Init PROVE TooLargeIsCertain
    OBVIOUS
  <2>1. told # "error-too-large" /\ listing = NoListing
    BY DEF Init, NoError
  <2> QED
    BY <1>1, <1>3, <2>1
<1>6. MediaInv /\ TooLargeIsCertain /\ [Next]_vars => TooLargeIsCertain'
  <2> SUFFICES ASSUME MediaInv, TooLargeIsCertain, [Next]_vars
               PROVE  TooLargeIsCertain'
    OBVIOUS
  <2>1. ASSUME listing' = listing, told' # "error-too-large",
               told # "error-too-large"
        PROVE  TooLargeIsCertain'
    BY <1>3, <1>4, <2>1
  <2>2. ASSUME pc # "refused" PROVE told # "error-too-large"
    BY <2>2 DEF MediaInv, TypeOK, NoError
  <2>3. ASSUME NEW l \in Link, Submit(l) PROVE TooLargeIsCertain'
    BY <2>1, <2>2, <2>3 DEF Submit, Tell
  <2>4. ASSUME told' = told, listing' = listing PROVE TooLargeIsCertain'
    BY <1>3, <1>4, <2>4
  <2>5. ASSUME GetPreview \/ Corrupt \/ UNCHANGED vars
        PROVE  TooLargeIsCertain'
    BY <2>4, <2>5 DEF GetPreview, Corrupt, vars
  <2>6. ASSUME NEW tapped \in DownloadSpec, Confirm(tapped)
        PROVE  TooLargeIsCertain'
    BY <2>4, <2>6 DEF Confirm
  <2>7. CASE LoadRequest
    BY <2>1, <2>2, <2>7 DEF LoadRequest, Tell, ErrorKey
  <2>8. CASE Weigh
    <3>1. PICK info \in Listing :
            /\ listing' = IF Limit = 0 THEN NoListing ELSE info
            /\ IF TooLarge(info, Limit)
               THEN Tell(ErrorKey.FileTooLargeError)
               ELSE pc' = "downloading" /\ UNCHANGED told
      BY <2>8 DEF Weigh
    <3>2. told # "error-too-large"
      BY <2>2, <2>8 DEF Weigh
    <3>3. told' = "error-too-large" <=> Above(info)
      BY <1>2, <3>1, <3>2 DEF Tell, ErrorKey
    <3>4. CASE Limit = 0
      BY <1>1, <1>4, <3>1, <3>3, <3>4 DEF Above
    <3>5. CASE Limit # 0
      BY <1>4, <3>1, <3>3, <3>5
    <3> QED
      BY <3>4, <3>5
  <2>9. ASSUME NEW m \in SUBSET Wording, YtDlpRaises(m)
        PROVE  TooLargeIsCertain'
    <3>1. listing' = NoListing /\ told' = Classified(m)
      BY <2>9 DEF YtDlpRaises, Tell
    <3>2. told' # "error-too-large"
      BY <3>1, KeyOfMessage
    <3> QED
      BY <1>1, <1>4, <3>1, <3>2
  <2>10. CASE Download
    <3>1. told' # "error-too-large" /\ listing' = NoListing
      BY <2>2, <2>10 DEF Download
    <3> QED
      BY <1>1, <1>4, <3>1
  <2>11. CASE Report
    BY <2>1, <2>2, <2>11 DEF Report, Tell, ErrorKey
  <2>12. CASE SendFile
    BY <2>1, <2>2, <2>12 DEF SendFile, Tell
  <2>13. CASE TelegramRefuses
    BY <2>1, <2>2, <2>13 DEF TelegramRefuses, Tell
  <2> QED
    BY <2>3, <2>5, <2>6, <2>7, <2>8, <2>9, <2>10, <2>11, <2>12, <2>13 DEF Next
<1> QED
  BY <1>5, <1>6, MediaInvariance, PTL DEF Spec

(***************************************************************************)
(* Admission is by the labels of the host, for every host, and every       *)
(* allowed and blocked domain that the configuration may name.             *)
(***************************************************************************)
THEOREM AdmissionByLabels == Spec => []AdmissionIsByDomain
<1> DEFINE admissible(l) == /\ \A d \in Blocked : ~Within(l.host, d)
                            /\ Allowed = {} \/ \E d \in Allowed : Within(l.host, d)
           verdict(l) == ValidateUrlAgainstAllowlist(l, Allowed, Blocked)
<1>1. Init => AdmissionIsByDomain
  BY DEF Init, NoError, AdmissionIsByDomain
<1>2. ASSUME NEW l \in Link
      PROVE  /\ verdict(l) = "valid" => admissible(l)
             /\ verdict(l) = "UnsupportedURLError" /\ admissible(l) =>
                   l.scheme \notin {"http", "https"} \/ l.host = << >>
  <2>1. l.host \in Seq(Label)
    BY LinkAssumption
  <2>2. \A d \in Allowed \cup Blocked :
          HostMatches(Hostname(l), d) <=> Within(l.host, d)
    BY <2>1, DomainAssumption, MatchesIsWithin
  <2>3. verdict(l) = IF ValidateUrl(l) # "valid" THEN ValidateUrl(l)
                     ELSE IF admissible(l) THEN "valid"
                     ELSE "UnsupportedURLError"
    BY <2>2 DEF ValidateUrlAgainstAllowlist
  <2>4. ValidateUrl(l) = "UnsupportedURLError" =>
          l.scheme \notin {"http", "https"} \/ l.host = << >>
    BY DEF ValidateUrl, AllowedSchemes
  <2> HIDE DEF verdict, admissible
  <2> QED
    BY <2>3, <2>4
<1>3. MediaInv /\ AdmissionIsByDomain /\ [Next]_vars => AdmissionIsByDomain'
  <2> SUFFICES ASSUME MediaInv, AdmissionIsByDomain, [Next]_vars
               PROVE  AdmissionIsByDomain'
    OBVIOUS
  <2>1. ASSUME pc' # "admitted", told' # "error-bad-url" PROVE AdmissionIsByDomain'
    BY <2>1 DEF AdmissionIsByDomain
  <2>2. ASSUME pc # "refused" PROVE told # "error-bad-url"
    BY <2>2 DEF MediaInv, TypeOK, NoError
  <2>3. ASSUME NEW l \in Link, Submit(l) PROVE AdmissionIsByDomain'
    <3>1. link' = l /\ pc = "new" /\ told # "error-bad-url"
      BY <2>2, <2>3 DEF Submit
    <3>2. /\ pc' = "admitted" => verdict(l) = "valid"
          /\ told' = "error-bad-url" => verdict(l) = "UnsupportedURLError"
      BY <2>3, <3>1 DEF Submit, Tell
    <3>3. /\ pc' = "admitted" => admissible(l)
          /\ told' = "error-bad-url" /\ admissible(l) =>
                l.scheme \notin {"http", "https"} \/ l.host = << >>
      <4> HIDE DEF verdict, admissible
      <4> QED
        BY <1>2, <3>2
    <3> QED
      BY <3>1, <3>3 DEF AdmissionIsByDomain
  <2>4. CASE GetPreview
    BY <2>1, <2>2, <2>4 DEF GetPreview
  <2>5. ASSUME NEW tapped \in DownloadSpec, Confirm(tapped)
        PROVE  AdmissionIsByDomain'
    BY <2>1, <2>2, <2>5 DEF Confirm
  <2>6. CASE Corrupt
    BY <2>1, <2>2, <2>6 DEF Corrupt
  <2>7. CASE LoadRequest
    BY <2>1, <2>2, <2>7 DEF LoadRequest, Tell, ErrorKey
  <2>8. CASE Weigh
    BY <2>1, <2>2, <2>8 DEF Weigh, Tell, ErrorKey
  <2>9. ASSUME NEW m \in SUBSET Wording, YtDlpRaises(m) PROVE AdmissionIsByDomain'
    <3>1. pc' = "refused" /\ told' = Classified(m)
      BY <2>9 DEF YtDlpRaises, Tell
    <3>2. told' # "error-bad-url"
      BY <3>1, KeyOfMessage
    <3> QED
      BY <2>1, <3>1, <3>2
  <2>10. CASE Download
    BY <2>1, <2>2, <2>10 DEF Download
  <2>11. CASE Report
    BY <2>1, <2>2, <2>11 DEF Report, Tell, ErrorKey
  <2>12. CASE SendFile
    BY <2>1, <2>2, <2>12 DEF SendFile, Tell
  <2>13. CASE TelegramRefuses
    BY <2>1, <2>13 DEF TelegramRefuses, Tell
  <2>14. CASE UNCHANGED vars
    BY <2>14 DEF vars, AdmissionIsByDomain
  <2> QED
    BY <2>3, <2>4, <2>5, <2>6, <2>7, <2>8, <2>9, <2>10, <2>11, <2>12, <2>13, <2>14
       DEF Next
<1> QED
  BY <1>1, <1>3, MediaInvariance, PTL DEF Spec

(***************************************************************************)
(* The name of every file delivered fits the budget, is not empty, and has *)
(* neither a forbidden character nor a blank or dot at its ends, for       *)
(* titles of any length.                                                   *)
(***************************************************************************)
THEOREM NamesAreSafe == Spec => []NameIsSafe
<1>1. Init => NameIsSafe
  BY DEF Init, NameIsSafe
<1>2. NameIsSafe /\ [Next]_vars => NameIsSafe'
  <2> SUFFICES ASSUME NameIsSafe, [Next]_vars PROVE NameIsSafe'
    OBVIOUS
  <2>1. CASE SendFile /\ pc' = "delivered"
    <3>1. PICK title \in Title :
             sent'.stem = DeliveryFilename(title, MaxFilename, SuffixBytes)
      BY <2>1 DEF SendFile, Tell
    <3>2. /\ sent'.stem \in Seq(DOMAIN Bytes) /\ sent'.stem # << >>
          /\ Utf8(sent'.stem) + SuffixBytes <= MaxFilename
          /\ sent'.stem[1] \notin Trimmed
          /\ sent'.stem[Len(sent'.stem)] \notin Trimmed
      BY <3>1, FilenameIsSafe
    <3>3. \A i \in DOMAIN sent'.stem : sent'.stem[i] \in DOMAIN Bytes
      BY <3>2
    <3> QED
      BY <3>2, <3>3 DEF NameIsSafe
  <2>2. CASE pc' # "delivered"
    BY <2>2 DEF NameIsSafe
  <2>3. CASE UNCHANGED vars
    <3>1. pc' = pc /\ sent' = sent
      BY <2>3 DEF vars
    <3> QED
      BY <3>1 DEF NameIsSafe
  <2>4. Next => SendFile \/ pc' # "delivered"
    BY DEF Next, Submit, GetPreview, Confirm, Corrupt, LoadRequest, Weigh,
           YtDlpRaises, Download, Report, TelegramRefuses, Tell
  <2> QED
    BY <2>1, <2>2, <2>3, <2>4
<1> QED
  BY <1>1, <1>2, PTL DEF Spec

=============================================================================
