----------------------------- MODULE MediaRules -----------------------------
(***************************************************************************)
(* The pure rules between a source and the file its user receives: what a  *)
(* preview observes, how the choice is stored, read back and turned into   *)
(* yt-dlp's options, what the child reports of the finished file, and how  *)
(* it is delivered and named.                                              *)
(*                                                                         *)
(* Python's None in place of a number is Nothing.  Durations and sizes     *)
(* that yt-dlp or ffprobe report are counted in halves where the code      *)
(* rounds them: 3 stands for 1.5.                                          *)
(***************************************************************************)
EXTENDS FormatPolicy, Integers, Sequences, SequencesExt, FiniteSetsExt

Nothing == -1

\* Python's "a or b" on numbers: nothing and zero both give way.
Or(a, b) == IF a \in {Nothing, 0} THEN b ELSE a

(***************************************************************************)
(* The preview: the largest short side the source has in the codec that    *)
(* plays inline, or in any codec if it has none.                           *)
(***************************************************************************)
CompatibleCodec == "h264"

\* A bug of MaxCompatibleShortSide: the codec is not looked at.
MaxShortSide(formats) ==
    LET sized == {f \in formats : /\ f.vcodec # "none"
                                  /\ f.width > 0 /\ f.height > 0}
    IN  IF sized = {} THEN NoSide
        ELSE Max({Min({f.width, f.height}) : f \in sized})

MaxCompatibleShortSide(formats) ==
    LET sized      == {f \in formats : /\ f.vcodec # "none"
                                       /\ f.width > 0 /\ f.height > 0}
        compatible == {f \in sized : f.vcodec = CompatibleCodec}
        pool       == IF compatible # {} THEN compatible ELSE sized
    IN  IF pool = {} THEN NoSide
        ELSE Max({Min({f.width, f.height}) : f \in pool})

(***************************************************************************)
(* The row.  A request is stored in four columns; the status and the pair  *)
(* of kind and tier are parsed strictly, an unknown media type is read as  *)
(* "unknown".                                                              *)
(***************************************************************************)
StoredStatus == {"pending", "processing", "done", "failed"}
MediaType    == {"video", "audio", "photo", "unknown"}

SpecKind(spec)      == spec.kind
SpecVideoTier(spec) == IF spec.kind = "video" THEN spec.tier ELSE NoTier

NoSpec == [kind |-> "none", tier |-> NoTier]

\* A bug of SpecFromParts: what cannot be read is the default.
SpecFromPartsLeniently(kind, tier) ==
    IF kind = "video" /\ tier \in Tier THEN VideoSpec(tier)
    ELSE IF kind = "audio" /\ tier = NoTier THEN AudioSpec
    ELSE DefaultSpec

\* NoSpec stands for the ValueError.
SpecFromParts(kind, tier) ==
    IF kind = "video" /\ tier \in Tier THEN VideoSpec(tier)
    ELSE IF kind = "audio" /\ tier = NoTier THEN AudioSpec
    ELSE NoSpec

CreateRow(spec, media) ==
    [status |-> "pending", media |-> media,
     kind |-> SpecKind(spec), tier |-> SpecVideoTier(spec)]

FromDbValue(media) == IF media \in MediaType THEN media ELSE "unknown"

Readable(row) ==
    /\ row.status \in StoredStatus
    /\ SpecFromParts(row.kind, row.tier) # NoSpec

ToEntity(row) ==
    [status |-> row.status, media |-> FromDbValue(row.media),
     spec |-> SpecFromParts(row.kind, row.tier)]

(***************************************************************************)
(* The download.  The options that differ between downloads: the formats   *)
(* asked for, whether the sound is extracted from them, the short side     *)
(* they are sorted by, the size limit.                                     *)
(***************************************************************************)
BuildDownloadYdlOpts(spec, limit) ==
    [format       |-> IF spec.kind = "audio" THEN "bestaudio" ELSE "bv*+ba",
     extractAudio |-> spec.kind = "audio",
     res          |-> IF spec.kind = "audio" THEN NoSide ELSE ShortSide[spec.tier],
     maxFilesize  |-> limit]

\* A size is yt-dlp's exact one, else its approximation.
EntrySize(entry) == Or(entry.exact, entry.approx)

\* A bug of EstimateTotalFilesize: an unknown size counts as zero.
EstimateUnknownAsZero(info) ==
    IF info.requested = << >> THEN EntrySize(info.whole)
    ELSE FoldLeft(LAMBDA sum, e : sum + Max({EntrySize(e), 0}), 0,
                  info.requested)

EstimateTotalFilesize(info) ==
    IF info.requested = << >> THEN EntrySize(info.whole)
    ELSE IF \E i \in DOMAIN info.requested :
                EntrySize(info.requested[i]) = Nothing
         THEN Nothing
         ELSE FoldLeft(LAMBDA sum, e : sum + EntrySize(e), 0, info.requested)

TooLarge(info, limit) ==
    /\ limit > 0
    /\ EstimateTotalFilesize(info) > limit

\* The path the child believes the file has: the last one a post hook was
\* called with, else the first requested download's, else a prediction.
ResolveDownloadedFilepath(hooks, requested, predicted) ==
    IF hooks # << >> THEN Last(hooks)
    ELSE IF requested # "" THEN requested
    ELSE predicted

(***************************************************************************)
(* The facts of the file.  Python rounds a half to the even neighbour, so  *)
(* half a second is 0 seconds and still not None.                          *)
(***************************************************************************)
PositiveInt(halves) ==
    IF halves <= 0 THEN Nothing
    ELSE LET n == halves \div 2
         IN  IF halves % 2 = 1 /\ n % 2 = 1 THEN n + 1 ELSE n

NoFacts == [width |-> Nothing, height |-> Nothing, duration |-> Nothing]

\* What the parent sends with the file, from the final info; ffprobe's view
\* of the file fills what the info lacks.
MediaFacts(kind, info, probed) ==
    LET video    == kind = "video"
        width    == IF video THEN PositiveInt(info.width) ELSE Nothing
        height   == IF video THEN PositiveInt(info.height) ELSE Nothing
        duration == PositiveInt(info.duration)
        probe    == \/ duration = Nothing
                    \/ video /\ Nothing \in {width, height}
        seen     == [f \in DOMAIN probed |-> PositiveInt(probed[f])]
    IN  IF ~probe
        THEN [width |-> width, height |-> height, duration |-> duration]
        ELSE [width    |-> IF video THEN Or(width, seen.width) ELSE Nothing,
              height   |-> IF video THEN Or(height, seen.height) ELSE Nothing,
              duration |-> Or(duration, seen.duration)]

(***************************************************************************)
(* The delivery.  A player needs its facts; without them the file goes as  *)
(* a document.                                                             *)
(***************************************************************************)
IsPlayableVideo(kind, facts) ==
    kind = "video" /\ Nothing \notin {facts.width, facts.height, facts.duration}

IsPlayableAudio(kind, facts) == kind = "audio" /\ facts.duration # Nothing

\* A bug of FromResult: the sides change places.
FromResultTurned(kind, facts) ==
    [width    |-> IF kind = "video" THEN facts.height ELSE Nothing,
     height   |-> IF kind = "video" THEN facts.width ELSE Nothing,
     duration |-> facts.duration]

\* A picture has dimensions, an extracted sound track has none.
FromResult(kind, facts) ==
    [width    |-> IF kind = "video" THEN facts.width ELSE Nothing,
     height   |-> IF kind = "video" THEN facts.height ELSE Nothing,
     duration |-> facts.duration]

Method(kind, facts) ==
    IF IsPlayableVideo(kind, facts) THEN "video"
    ELSE IF IsPlayableAudio(kind, facts) THEN "audio"
    ELSE "document"

(***************************************************************************)
(* The name the recipient sees.  A title is a sequence of characters, told *)
(* apart by what becomes of them; a title that cannot be encoded in UTF-8  *)
(* at all, a lone surrogate in it, is not among them.                      *)
(***************************************************************************)
Bytes == [letter |-> 1, wide |-> 2, space |-> 1, dot |-> 1]

Char == DOMAIN Bytes \cup {"forbidden", "newline", "invisible"}

Trimmed == {"space", "dot"}

\* A character is one byte or two.
Utf8(text) == Len(text) + Cardinality({i \in DOMAIN text : Bytes[text[i]] = 2})

Strip(text) ==
    LET kept == {i \in DOMAIN text : text[i] \notin Trimmed}
    IN  IF kept = {} THEN << >> ELSE SubSeq(text, Min(kept), Max(kept))

\* One character more: an invisible one is dropped, a forbidden one is a
\* blank, and a blank counts once and not in front.
Joined(text, char) ==
    LET c == IF char \in {"forbidden", "newline"} THEN "space" ELSE char
    IN  IF \/ c = "invisible"
           \/ c = "space" /\ (text = << >> \/ Last(text) = "space")
        THEN text
        ELSE Append(text, c)

Sanitize(title) == Strip(FoldLeft(Joined, << >>, title))

TruncateUtf8(text, maxBytes) ==
    SubSeq(text, 1, Max({n \in 0..Len(text) :
                            Utf8(SubSeq(text, 1, n)) <= Max({maxBytes, 0})}))

\* The stem of the name on disk, yt-dlp's id of the video: the name when a
\* title leaves nothing.  One short id stands for all of them.
DiskStem == <<"letter">>

\* A bug of DeliveryFilename: what the cut leaves is not stripped again.
DeliveryFilenameCut(title, maxBytes, suffixBytes) ==
    LET stem == TruncateUtf8(Sanitize(title), maxBytes - suffixBytes)
    IN  IF stem = << >> THEN DiskStem ELSE stem

DeliveryFilename(title, maxBytes, suffixBytes) ==
    LET stem == Strip(TruncateUtf8(Sanitize(title), maxBytes - suffixBytes))
    IN  IF stem = << >> THEN DiskStem ELSE stem

=============================================================================
