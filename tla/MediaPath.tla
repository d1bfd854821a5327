------------------------------ MODULE MediaPath ------------------------------
(***************************************************************************)
(* The way of one link through the system, seen by what is decided about   *)
(* it: admitted at the edge, previewed, chosen as a spec, stored, read     *)
(* back by the worker, handed to the child as two strings, weighed,        *)
(* downloaded, found on disk, measured, and delivered - or refused with    *)
(* one of the errors a user may read.                                      *)
(*                                                                         *)
(* When these steps run, are cut off or repeated is the subject of         *)
(* PreviewFlow, DownloadLifecycle and ChildProcess; here every step        *)
(* happens once, on every input.  A variable whose value no later step     *)
(* reads goes back to its initial value.                                   *)
(***************************************************************************)
EXTENDS LinkRules, MediaRules, FiniteSets

CONSTANTS
    Link,           \* links a user may send
    Allowed,        \* settings.allowed_domains
    Blocked,        \* settings.blocked_domains
    Format,         \* video formats a source may have
    MaxFormats,     \* how many of them at once
    Size,           \* sizes yt-dlp may estimate and files may have
    Limit,          \* max_deliverable_file_size_bytes
    Length,         \* durations of a file, in half seconds
    Title,          \* titles
    MaxFilename,    \* MAX_FILENAME_BYTES
    SuffixBytes     \* bytes of the file's extension

ASSUME LinkAssumption ==
    \A l \in Link : /\ l.host \in Seq(Label) /\ l.photo \in BOOLEAN
                    /\ l.words \subseteq Wording

ASSUME DomainAssumption == Allowed \cup Blocked \subseteq Seq(Label)

ASSUME FormatAssumption ==
    /\ Format \subseteq [vcodec : STRING, width : Nat, height : Nat]
    /\ IsFiniteSet(Format) /\ MaxFormats \in Nat

ASSUME SizeAssumption ==
    Size \subseteq Nat /\ Limit \in Nat /\ Length \subseteq Nat \ {0}

ASSUME NameAssumption ==
    /\ SuffixBytes \in Nat /\ MaxFilename \in Nat /\ SuffixBytes < MaxFilename
    /\ Title \subseteq Seq(Char)

VARIABLES
    pc,         \* the step the link waits for
    link,       \* the link
    formats,    \* what the source has
    side,       \* what the preview observed of it
    picked,     \* the spec behind the button the user tapped
    row,        \* the request's columns
    spec,       \* the spec of the request the worker read
    child,      \* the spec the child rebuilt
    listing,    \* what yt-dlp says of the sizes, while they are weighed
    file,       \* the finished file: its path and what it really is
    result,     \* what the child reported of it
    message,    \* the wordings of yt-dlp's error
    sent,       \* the delivery
    told        \* the error the user reads

vars == <<pc, link, formats, side, picked, row, spec, child, listing, file, result,
          message, sent, told>>

NoLink   == [scheme |-> "", host |-> << >>, extra |-> FALSE, brackets |-> FALSE,
             photo |-> FALSE, words |-> {}]
NoRow    == [status |-> "", media |-> "", kind |-> "", tier |-> ""]
NoFile   == [path |-> "", sound |-> FALSE, size |-> 0, facts |-> NoFacts]
NoResult == [path |-> "", facts |-> NoFacts]
NoSent   == [method |-> "none", facts |-> NoFacts, stem |-> << >>]
NoError  == ""

NoEntry   == [exact |-> Nothing, approx |-> Nothing]
NoListing == [whole |-> NoEntry, requested |-> << >>]

\* The picture of every video: 3 by 2, in halves.
Picture == [width |-> 6, height |-> 4, duration |-> Nothing]

Init ==
    /\ pc = "new" /\ link = NoLink /\ formats = {} /\ side = NoSide
    /\ picked = NoSpec /\ row = NoRow /\ spec = NoSpec /\ child = NoSpec
    /\ listing = NoListing
    /\ file = NoFile /\ result = NoResult /\ message = {}
    /\ sent = NoSent /\ told = NoError

Tell(key) == told' = key /\ pc' = "refused"

(***************************************************************************)
(* The bot.                                                                *)
(***************************************************************************)
\* The text of a message, or the argument of a command, is validated.  A
\* ValueError is not caught: nobody is told anything.
Submit(l) ==
    /\ pc = "new"
    /\ link' = l
    /\ \/ /\ ValidateUrlAgainstAllowlist(l, Allowed, Blocked) = "valid"
          /\ pc' = "admitted"
          /\ UNCHANGED told
       \/ /\ ValidateUrlAgainstAllowlist(l, Allowed, Blocked) = "UnsupportedURLError"
          /\ Tell("error-bad-url")
       \/ /\ ValidateUrlAgainstAllowlist(l, Allowed, Blocked) = "ValueError"
          /\ pc' = "raised"
          /\ UNCHANGED told
    /\ UNCHANGED <<formats, side, picked, row, spec, child, listing, file, result,
                   message, sent>>

GetPreview ==
    /\ pc = "admitted"
    /\ \E fs \in SUBSET Format :
          /\ Cardinality(fs) <= MaxFormats
          /\ formats' = fs
          /\ side' = MaxCompatibleShortSide(fs)
    /\ link' = [NoLink EXCEPT !.photo = link.photo, !.words = link.words]
    /\ pc' = "offered"
    /\ UNCHANGED <<picked, row, spec, child, listing, file, result, message, sent, told>>

\* yt-dlp quotes the URL it does not support, words that are in it included.
Messages == {m \in SUBSET Wording : "unsupported_url" \in m => link.words \subseteq m}

Classified(m) == ErrorKey[ClassifyError(m, link.photo)]

\* RequestDownload stores the columns of the tapped spec; the media type of a
\* new request is unknown.  The policy's verdict belongs to PreviewFlow.
Confirm(tapped) ==
    /\ pc = "offered"
    /\ tapped \in {AudioSpec}
                  \cup (IF TiersFor(side) = {} THEN {DirectVideoSpec}
                        ELSE {VideoSpec(t) : t \in TiersFor(side)})
    /\ picked' = tapped
    /\ row' = CreateRow(tapped, "unknown")
    /\ formats' = {} /\ side' = NoSide
    /\ pc' = "stored"
    /\ UNCHANGED <<link, spec, child, listing, file, result, message, sent, told>>

\* The row that another build of the program wrote, or a hand changed: it
\* has values this build does not know.
Unknown ==
    {r \in [status : {"pending", "queued"}, media : {"unknown", "carousel"},
            kind : Kind \cup {"photo"}, tier : Tier \cup {NoTier, "p2160"}] :
       [kind |-> r.kind, tier |-> r.tier] \notin DownloadSpec \ {picked}}

Corrupt ==
    /\ pc = "stored"
    /\ row = CreateRow(picked, "unknown")
    /\ row' \in Unknown \ {row}
    /\ UNCHANGED <<pc, link, formats, side, picked, spec, child, listing, file, result,
                   message, sent, told>>

(***************************************************************************)
(* The worker and its child.  The entity's spec crosses the process        *)
(* boundary as the two strings it is stored in.                            *)
(***************************************************************************)
LoadRequest ==
    /\ pc = "stored"
    /\ IF Readable(row)
       THEN /\ spec' = ToEntity(row).spec
            /\ child' = SpecFromParts(SpecKind(spec'), SpecVideoTier(spec'))
            /\ row' = NoRow
            /\ pc' = "weighing"
            /\ UNCHANGED told
       ELSE /\ Tell(ErrorKey.CorruptedRecordError)
            /\ UNCHANGED <<row, spec, child>>
    /\ UNCHANGED <<link, formats, side, picked, listing, file, result, message,
                   sent>>

Entry == [exact : Size \cup {Nothing}, approx : Size \cup {Nothing}]

\* What yt-dlp lists under requested_downloads.
Requested == {<< >>} \cup {<<e>> : e \in Entry} \cup {<<e, f>> : e, f \in Entry}

Listing == [whole : Entry, requested : Requested]

\* Without a limit nothing is extracted beforehand.  Where yt-dlp lists the
\* downloads, what it says of the whole is not read, and is left out here.
Weigh ==
    /\ pc = "weighing"
    /\ \E info \in Listing :
          /\ info.requested = << >> \/ info.whole = NoEntry
          /\ listing' = IF Limit = 0 THEN NoListing ELSE info
          /\ IF TooLarge(info, Limit)
             THEN Tell(ErrorKey.FileTooLargeError)
             ELSE pc' = "downloading" /\ UNCHANGED told
    /\ UNCHANGED <<link, formats, side, picked, row, spec, child, file, result,
                   message, sent>>

\* yt-dlp's own failure, in the preview, in the child's first look or in
\* the download: the message is classified in the parent.
YtDlpRaises(m) ==
    /\ pc \in {"admitted", "weighing", "downloading"}
    /\ m \in Messages
    /\ message' = m
    /\ listing' = NoListing
    /\ Tell(Classified(m))
    /\ UNCHANGED <<link, formats, side, picked, row, spec, child, file, result,
                   sent>>

\* yt-dlp returns.  It may have given the download up without an error,
\* when the limit was passed on the way; then there is no file.  The file is
\* sound only if the options had it extracted; only a video has a picture.
Download ==
    /\ pc = "downloading"
    /\ LET opts == BuildDownloadYdlOpts(child, Limit)
       IN  \E size \in Size, length \in Length, there \in BOOLEAN :
              /\ there \/ (opts.maxFilesize > 0 /\ size > opts.maxFilesize)
              /\ file' = [path  |-> IF there THEN "final" ELSE "",
                          sound |-> opts.extractAudio,
                          size  |-> size,
                          facts |-> IF opts.extractAudio
                                    THEN [NoFacts EXCEPT !.duration = length]
                                    ELSE [Picture EXCEPT !.duration = length]]
    /\ listing' = NoListing
    /\ pc' = "written"
    /\ UNCHANGED <<link, formats, side, picked, row, spec, child, result,
                   message, sent, told>>

\* What the info may say of the file, also of the picture of a source whose
\* sound alone was kept; and what ffprobe may.
Info(facts)  == [width    : {Picture.width, 0, Nothing},
                 height   : {Picture.height, 0, Nothing},
                 duration : {facts.duration, 0, Nothing}]
Probe(facts) == {facts, NoFacts}

\* The child finds the file, and measures it.  A path that no file has is
\* a diagnostic for the log, and the generic error for the user.
Report ==
    /\ pc = "written"
    /\ \E hooks \in {<< >>, <<"final">>, <<"other", "final">>},
          requested \in {"", "part", "final"}, predicted \in {"part", "final"} :
          LET path == ResolveDownloadedFilepath(hooks, requested, predicted)
          IN  IF path # file.path
              THEN Tell(ErrorKey.ExtractionError) /\ UNCHANGED result
              ELSE /\ \E info \in Info(file.facts), probed \in Probe(file.facts) :
                         result' = [path  |-> path,
                                    facts |-> MediaFacts(SpecKind(child), info, probed)]
                   /\ pc' = "reported"
                   /\ UNCHANGED told
    /\ UNCHANGED <<link, formats, side, picked, row, spec, child, listing, file,
                   message, sent>>

(***************************************************************************)
(* The delivery.                                                           *)
(***************************************************************************)
SendFile ==
    /\ pc = "reported"
    /\ IF file.size > Limit
       THEN Tell("error-delivery-failed") /\ UNCHANGED sent
       ELSE /\ LET kind  == SpecKind(spec)
                   facts == FromResult(kind, result.facts)
               IN  \E title \in Title :
                      sent' = [method |-> Method(kind, facts),
                               facts  |-> facts,
                               stem   |-> DeliveryFilename(title, MaxFilename,
                                                           SuffixBytes)]
            /\ pc' = "delivered"
            /\ UNCHANGED told
    /\ UNCHANGED <<link, formats, side, picked, row, spec, child, listing, file,
                   result, message>>

TelegramRefuses ==
    /\ pc = "reported"
    /\ file.size <= Limit
    /\ Tell("error-delivery-failed")
    /\ UNCHANGED <<link, formats, side, picked, row, spec, child, listing, file,
                   result, message, sent>>

Next ==
    \/ \E l \in Link : Submit(l)
    \/ GetPreview
    \/ \E tapped \in DownloadSpec : Confirm(tapped)
    \/ Corrupt
    \/ LoadRequest
    \/ Weigh
    \/ \E m \in SUBSET Wording : YtDlpRaises(m)
    \/ Download
    \/ Report
    \/ SendFile
    \/ TelegramRefuses

Spec == Init /\ [][Next]_vars

-----------------------------------------------------------------------------
\* The variables have their types: every stage leaves a record the next one
\* can read.
TypeOK ==
    /\ pc \in {"new", "admitted", "offered", "stored", "weighing", "downloading",
              "written", "reported", "delivered", "refused", "raised"}
    /\ link = NoLink \/ link \in Link
       \/ \E l \in Link : link = [NoLink EXCEPT !.photo = l.photo, !.words = l.words]
    /\ formats \subseteq Format
    /\ side \in Side
    /\ {picked, spec, child} \subseteq DownloadSpec \cup {NoSpec}
    /\ listing \in Listing
    /\ message \subseteq Wording
    /\ sent.method \in {"none", "video", "audio", "document"}
    /\ told = NoError <=> pc # "refused"

\* The host ends, before the dots behind it, with all the labels that the
\* domain has after the dots in front of it, in any case.
Within(host, domain) ==
    \E e \in 0..Len(host), n \in 0..Len(domain) :
        LET front == Len(domain) - n
        IN  /\ \A i \in e + 1..Len(host) : host[i] = NoLabel
            /\ e > 0 => host[e] # NoLabel
            /\ \A i \in 1..front : domain[i] = NoLabel
            /\ n > 0 => domain[front + 1] # NoLabel
            /\ n <= e /\ (n = 0 => e = 0)
            /\ \A i \in 0..n - 1 :
                  Lowered[host[e - i]] = Lowered[domain[Len(domain) - i]]

(***************************************************************************)
(* A link goes on exactly when its host, spelled in any case and with or   *)
(* without a dot behind it, is an allowed domain or a subdomain of one and *)
(* neither a blocked domain nor a subdomain of one: compared label by      *)
(* label from the right, so evilyoutube.com is not youtube.com, and what   *)
(* stands before the host does not count.  A link with such a host is      *)
(* refused only for its scheme, or when it has no host at all.             *)
(***************************************************************************)
AdmissionIsByDomain ==
    LET admissible == /\ \A d \in Blocked : ~Within(link.host, d)
                      /\ Allowed = {} \/ \E d \in Allowed : Within(link.host, d)
    IN  /\ pc = "admitted" => admissible
        /\ told = "error-bad-url" /\ admissible =>
              link.scheme \notin {"http", "https"} \/ link.host = << >>

(***************************************************************************)
(* A tier on the card is one the source has: some format reaches it, in    *)
(* the codec that plays inline if the source has a sized format in that.   *)
(* "best" is on the card only for a source between the two others.         *)
(***************************************************************************)
CardKeepsItsPromise ==
    pc = "offered" =>
        LET reaches(f, n) == f.vcodec # "none" /\ f.width >= n /\ f.height >= n
            inline        == {f \in formats : f.vcodec = CompatibleCodec /\ reaches(f, 1)}
            target(t)     == IF t = "best" THEN ShortSide.p720 + 1 ELSE ShortSide[t]
        IN  \A t \in TiersFor(side) :
               \E f \in formats : /\ reaches(f, target(t))
                                  /\ inline # {} => f \in inline

(***************************************************************************)
(* What the child downloads is what the user tapped, through two columns   *)
(* of a row and two strings of a process boundary; a row whose status or   *)
(* spec this build cannot read is never downloaded, and one whose media    *)
(* type alone it cannot read is.                                           *)
(***************************************************************************)
PickedIsFetched ==
    /\ child # NoSpec => child = picked /\ spec = picked
    /\ told = "error-internal" =>
          \/ row.status # "pending"
          \/ [kind |-> row.kind, tier |-> row.tier] # picked

(***************************************************************************)
(* A fact sent with a file is the file's own, to half a unit, whichever of *)
(* the info and ffprobe it came from, and whichever of them said nothing   *)
(* or zero.                                                                *)
(***************************************************************************)
FactsAreTheFiles ==
    \A f \in DOMAIN sent.facts :
        sent.facts[f] # Nothing =>
            2 * sent.facts[f] - file.facts[f] \in {-1, 0, 1}

(***************************************************************************)
(* A video player gets a request for a video and all the facts it needs,   *)
(* an audio player a request for sound and a file that is only sound; the  *)
(* file delivered is there, and the facts sent with it are its own.        *)
(***************************************************************************)
DeliveredAsAsked ==
    /\ FactsAreTheFiles
    /\ sent.method # "none" =>
        /\ result.path = file.path
        /\ file.sound <=> picked.kind = "audio"
        /\ sent.method = "video" =>
              /\ picked.kind = "video"
              /\ sent.facts.width > 0 /\ sent.facts.height > 0 /\ sent.facts.duration >= 0
        /\ sent.method = "audio" => picked.kind = "audio" /\ sent.facts.duration >= 0

\* The parts yt-dlp would fetch, and how large it says one is: a zero is no
\* figure while there is another.
Parts(info) == IF info.requested = << >> THEN <<info.whole>>
               ELSE info.requested
Said(part)  == IF part.exact > 0 THEN part.exact ELSE part.approx

\* The bytes of all the parts, one by one.
BytesOf(info) ==
    UNION {{i} \X (1..Said(Parts(info)[i])) : i \in DOMAIN Parts(info)}

Sized(info) == \A i \in DOMAIN Parts(info) : Said(Parts(info)[i]) # Nothing

(***************************************************************************)
(* A request ends with "too large" exactly when yt-dlp knows the size of   *)
(* every part it would fetch and they have more bytes than may be          *)
(* delivered.  A part of unknown size is not one of size zero, so it never *)
(* makes a request too large, whatever the other parts come to             *)
(* (_estimate_total_filesize: "None as unknown, not zero"); and no part is *)
(* left out of the sum.                                                    *)
(***************************************************************************)
TooLargeIsCertain ==
    told = "error-too-large" <=>
        Limit > 0 /\ Sized(listing) /\ Cardinality(BytesOf(listing)) > Limit

(***************************************************************************)
(* The error a user reads fits yt-dlp's message: a specific one only if    *)
(* the message says so, a wall of access before a dead link, and a photo   *)
(* post never as an unsupported site.                                      *)
(***************************************************************************)
ErrorFitsMessage ==
    message # {} =>
        /\ told = "error-private" => "private" \in message
        /\ told = "error-age" => "age" \in message
        /\ told = "error-geo" => "geo" \in message
        /\ told = "error-unavailable" => "unavailable" \in message
        /\ message \cap {"private", "age", "geo"} # {} =>
              told \in {"error-private", "error-age", "error-geo"}
        /\ told = "error-unsupported-site" =>
              "unsupported_url" \in message /\ ~link.photo
        /\ told = "error-extraction-failed" => message \subseteq {"photo"}

(***************************************************************************)
(* What has been decided by the time the link waits for a step, and where  *)
(* the decision is kept.                                                   *)
(***************************************************************************)
StageInv ==
    /\ pc = "admitted" => link \in Link
    /\ pc \in {"new", "admitted", "offered"} =>
           row = NoRow /\ picked = NoSpec /\ spec = NoSpec /\ child = NoSpec
    /\ pc = "offered" => side = MaxCompatibleShortSide(formats)
    /\ pc = "stored" =>
           /\ picked \in DownloadSpec /\ spec = NoSpec /\ child = NoSpec
           /\ row = CreateRow(picked, "unknown") \/ row \in Unknown
    /\ pc \in {"weighing", "downloading", "written", "reported", "delivered"} =>
           picked \in DownloadSpec /\ spec = picked /\ child = picked
    /\ pc # "delivered" => sent = NoSent
    /\ pc # "refused" => message = {}
    /\ message # {} => told = Classified(message)

\* n is what halves round to, or nothing is known.
Rounds(n, halves) == n = Nothing \/ (n \in Nat /\ 2 * n - halves \in {-1, 0, 1})

\* The file, the child's report of it, and what is sent.
FileInv ==
    /\ pc \in {"written", "reported", "delivered"} =>
           /\ file.size \in Size
           /\ file.sound <=> picked.kind = "audio"
           /\ file.facts \in [width : Int, height : Int, duration : Length]
           /\ picked.kind = "video" => /\ file.facts.width = Picture.width
                                       /\ file.facts.height = Picture.height
    /\ pc \in {"reported", "delivered"} =>
           /\ result.path = file.path
           /\ Rounds(result.facts.duration, file.facts.duration)
           /\ picked.kind = "video" =>
                  /\ Rounds(result.facts.width, Picture.width)
                  /\ Rounds(result.facts.height, Picture.height)
    /\ pc = "delivered" =>
           /\ file.size <= Limit
           /\ sent.facts = FromResult(picked.kind, result.facts)
           /\ sent.method = Method(picked.kind, sent.facts)

\* The types, the user's choice unchanged on its way to the child, and what
\* the stages hand on to each other.
MediaInv == TypeOK /\ PickedIsFetched /\ StageInv /\ FileInv

(***************************************************************************)
(* The name a recipient sees fits the budget, has no character that a      *)
(* filesystem forbids or a reader does not see, no blank or dot at its     *)
(* ends, and is never empty.  It says nothing of the fallback, the name on *)
(* disk, which the code does not cut and which is short here.              *)
(***************************************************************************)
NameIsSafe ==
    pc = "delivered" =>
        /\ sent.stem # << >>
        /\ Utf8(sent.stem) + SuffixBytes <= MaxFilename
        /\ \A i \in DOMAIN sent.stem : sent.stem[i] \in DOMAIN Bytes
        /\ {sent.stem[1], sent.stem[Len(sent.stem)]} \cap Trimmed = {}

=============================================================================
