------------------------------ MODULE LinkRules ------------------------------
(***************************************************************************)
(* The pure rules a link meets: the validation at the edge of the bot, and *)
(* the classification of yt-dlp's message when the link cannot be fetched. *)
(*                                                                         *)
(* A host is the sequence of its dot-separated labels; a dot at its end,   *)
(* or at the front of a configured domain, is an empty label there.  A     *)
(* message is the set of wordings it contains.                             *)
(***************************************************************************)
EXTENDS Naturals, Sequences, SequencesExt

CONSTANTS
    Label,      \* host labels, in any spelling
    Lowered     \* str.lower on them

NoLabel == ""

ASSUME LabelAssumption ==
    /\ NoLabel \in Label
    /\ Lowered \in [Label -> Label]
    /\ \A l \in Label : Lowered[Lowered[l]] = Lowered[l]
    /\ \A l \in Label : Lowered[l] = NoLabel <=> l = NoLabel

(***************************************************************************)
(* Validation.  A link is what urlparse sees in the trimmed text: the      *)
(* scheme, the host, and whether the network location also has user        *)
(* information or a port.  urlparse itself refuses a text with an          *)
(* unbalanced bracket.                                                     *)
(***************************************************************************)
AllowedSchemes == {"http", "https"}

LowerHost(labels) == [i \in DOMAIN labels |-> Lowered[labels[i]]]

\* str.lstrip(".") and str.rstrip(".").
WithoutDotsInFront(labels) ==
    LET n == CHOOSE n \in 0..Len(labels) :
                /\ \A i \in 1..n : labels[i] = NoLabel
                /\ n < Len(labels) => labels[n + 1] # NoLabel
    IN  SubSeq(labels, n + 1, Len(labels))

WithoutDotsBehind(labels) == Reverse(WithoutDotsInFront(Reverse(labels)))

Hostname(link) == WithoutDotsBehind(LowerHost(link.host))

\* A suffix of whole labels; the empty domain is the suffix of no host,
\* because a hostname has no dot behind it.
HostMatches(hostname, domain) ==
    LET d == WithoutDotsInFront(LowerHost(domain))
    IN  hostname = d \/ (d # << >> /\ IsSuffix(d, hostname))

ValidateUrl(link) ==
    IF link.brackets THEN "ValueError"
    ELSE IF \/ link.scheme \notin AllowedSchemes
            \/ link.host = << >> /\ ~link.extra
         THEN "UnsupportedURLError"
         ELSE "valid"

\* A bug of ValidateUrlAgainstAllowlist: an allowed domain is not looked up
\* among the blocked ones.
ValidateAllowedFirst(link, allowed, blocked) ==
    IF ValidateUrl(link) # "valid" THEN ValidateUrl(link)
    ELSE IF \/ \E d \in allowed : HostMatches(Hostname(link), d)
            \/ allowed = {} /\ ~\E d \in blocked : HostMatches(Hostname(link), d)
         THEN "valid"
         ELSE "UnsupportedURLError"

ValidateUrlAgainstAllowlist(link, allowed, blocked) ==
    IF ValidateUrl(link) # "valid" THEN ValidateUrl(link)
    ELSE IF /\ ~\E d \in blocked : HostMatches(Hostname(link), d)
            /\ allowed = {} \/ \E d \in allowed : HostMatches(Hostname(link), d)
         THEN "valid"
         ELSE "UnsupportedURLError"

(***************************************************************************)
(* Errors.  The domain's error types and the key each one is shown by.     *)
(***************************************************************************)
ErrorKey ==
    [UnsupportedURLError     |-> "error-unsupported-site",
     ExtractionError         |-> "error-extraction-failed",
     PrivateContentError     |-> "error-private",
     GeoRestrictedError      |-> "error-geo",
     AgeRestrictedError      |-> "error-age",
     ContentUnavailableError |-> "error-unavailable",
     UnsupportedMediaError   |-> "error-unsupported-media",
     FileTooLargeError       |-> "error-too-large",
     CorruptedRecordError    |-> "error-internal"]

\* The signatures in the order in which they are tried.
Signatures ==
    << <<"private",     "PrivateContentError">>,
       <<"age",         "AgeRestrictedError">>,
       <<"geo",         "GeoRestrictedError">>,
       <<"unavailable", "ContentUnavailableError">>,
       <<"no_media",    "UnsupportedMediaError">> >>

Wording == {Signatures[i][1] : i \in DOMAIN Signatures}
           \cup {"unsupported_url", "photo"}

\* A bug of ClassifyError: the last signature wins.
ClassifyLast(message, photoUrl) ==
    LET hits == {i \in DOMAIN Signatures : Signatures[i][1] \in message}
    IN  IF hits # {}
        THEN Signatures[CHOOSE i \in hits : \A j \in hits : j <= i][2]
        ELSE IF "unsupported_url" \notin message THEN "ExtractionError"
        ELSE IF photoUrl \/ "photo" \in message
             THEN "UnsupportedMediaError"
             ELSE "UnsupportedURLError"

ClassifyError(message, photoUrl) ==
    LET hits == {i \in DOMAIN Signatures : Signatures[i][1] \in message}
    IN  IF hits # {}
        THEN Signatures[CHOOSE i \in hits : \A j \in hits : i <= j][2]
        ELSE IF "unsupported_url" \notin message THEN "ExtractionError"
        ELSE IF photoUrl \/ "photo" \in message
             THEN "UnsupportedMediaError"
             ELSE "UnsupportedURLError"

=============================================================================
