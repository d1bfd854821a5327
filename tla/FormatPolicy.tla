---------------------------- MODULE FormatPolicy ----------------------------
(***************************************************************************)
(* The pure rules behind a preview card: what a source may be downloaded   *)
(* as, which buttons the card therefore has, and what a button's callback  *)
(* data means when it comes back.                                          *)
(*                                                                         *)
(* A spec is a kind and a tier, the two columns a request stores it in.    *)
(* A policy maps lowercased extractor keys to the kinds they may not be    *)
(* downloaded as.  A side of NoSide is a preview that observed none.       *)
(***************************************************************************)
EXTENDS Naturals

CONSTANTS
    Key,        \* extractor keys, as yt-dlp or the configuration spells them
    Lower       \* str.lower on them

ASSUME LowerAssumption ==
    /\ Lower \in [Key -> Key]
    /\ \A k \in Key : Lower[Lower[k]] = Lower[k]

Kind == {"video", "audio"}
Tier == {"p720", "p1080", "best"}

NoTier == "none"
NoSide == 0
Side   == Nat

VideoSpec(tier) == [kind |-> "video", tier |-> tier]
AudioSpec       == [kind |-> "audio", tier |-> NoTier]
DownloadSpec    == {VideoSpec(t) : t \in Tier} \cup {AudioSpec}

DefaultSpec     == VideoSpec("p720")
DirectVideoSpec == VideoSpec("best")

\* VideoTier.short_side: "best" has no target of its own.
ShortSide == [p720 |-> 720, p1080 |-> 1080, best |-> NoSide]

(***************************************************************************)
(* FormatPolicy over one configuration.                                    *)
(***************************************************************************)
Policy == [{Lower[k] : k \in Key} -> SUBSET Kind]

Disabled(policy, key) == policy[Lower[key]]

IsAllowed(policy, key, spec) == spec.kind \notin Disabled(policy, key)

TiersFor(side) ==
    IF side <= ShortSide.p720 THEN {}
    ELSE IF side >= ShortSide.p1080 THEN {"p720", "p1080"}
    ELSE {"p720", "best"}

\* A bug of OfferedChoices: only the video switch is looked at.
ChoicesWithAudio(policy, key, side) ==
    LET video == "video" \notin Disabled(policy, key)
    IN  [video |-> video,
         audio |-> TRUE,
         tiers |-> IF video THEN TiersFor(side) ELSE {}]

OfferedChoices(policy, key, side) ==
    LET video == "video" \notin Disabled(policy, key)
    IN  [video |-> video,
         audio |-> "audio" \notin Disabled(policy, key),
         tiers |-> IF video THEN TiersFor(side) ELSE {}]

DefaultVideoSpec(side) ==
    IF TiersFor(side) # {} THEN VideoSpec("p720") ELSE DirectVideoSpec

(***************************************************************************)
(* Callback data.  Every button of a card carries the card's token; what   *)
(* tells them apart is the rest: "q", "back", "cancel", or the code behind *)
(* "dl:<token>:".  "v" and "" are the codes of cards that older builds     *)
(* rendered, the latter with no code at all.                               *)
(***************************************************************************)
VideoCode   == [p720 |-> "v720", p1080 |-> "v1080", best |-> "vbest"]
ConfirmCode == {VideoCode[t] : t \in Tier} \cup {"a", "v", ""}
Button      == {"q", "back", "cancel"} \cup ConfirmCode

ConfirmData(spec) == IF spec = AudioSpec THEN "a" ELSE VideoCode[spec.tier]

ParseConfirm(code) ==
    IF code = "a" THEN AudioSpec
    ELSE IF \E t \in Tier : VideoCode[t] = code
         THEN VideoSpec(CHOOSE t \in Tier : VideoCode[t] = code)
         ELSE DefaultSpec

(***************************************************************************)
(* The two keyboards of a card.                                            *)
(***************************************************************************)
PreviewConfirmKeyboard(choices) ==
    (IF choices.video
     THEN {IF choices.tiers # {} THEN "q" ELSE ConfirmData(DirectVideoSpec)}
     ELSE {})
    \cup (IF choices.audio THEN {ConfirmData(AudioSpec)} ELSE {})
    \cup {"cancel"}

QualityPickerKeyboard(tiers) ==
    {ConfirmData(VideoSpec(t)) : t \in tiers} \cup {"back"}

=============================================================================
