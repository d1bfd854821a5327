------------------------- MODULE PreviewFlowProofs -------------------------
(***************************************************************************)
(* Proofs about PreviewFlow, for any number of updates and cards and any   *)
(* degree of overlap.                                                      *)
(***************************************************************************)
EXTENDS PreviewFlow, TLAPS

(***************************************************************************)
(* Callback data and keyboards.                                            *)
(***************************************************************************)
\* parse_confirm_callback gives back the spec that confirm_callback_data
\* wrote into the button.
LEMMA CodesParse ==
    /\ ParseConfirm("a") = AudioSpec
    /\ ParseConfirm("v720") = VideoSpec("p720")
    /\ ParseConfirm("v1080") = VideoSpec("p1080")
    /\ ParseConfirm("vbest") = VideoSpec("best")
<1>1. ParseConfirm("a") = AudioSpec
  BY DEF ParseConfirm
<1>2. ParseConfirm("v720") = VideoSpec("p720")
  <2>1. \A t \in Tier : VideoCode[t] = "v720" <=> t = "p720"
    BY DEF Tier, VideoCode
  <2>2. (CHOOSE t \in Tier : VideoCode[t] = "v720") = "p720"
    BY <2>1 DEF Tier
  <2>. QED  BY <2>1, <2>2 DEF ParseConfirm, Tier
<1>3. ParseConfirm("v1080") = VideoSpec("p1080")
  <2>1. \A t \in Tier : VideoCode[t] = "v1080" <=> t = "p1080"
    BY DEF Tier, VideoCode
  <2>2. (CHOOSE t \in Tier : VideoCode[t] = "v1080") = "p1080"
    BY <2>1 DEF Tier
  <2>. QED  BY <2>1, <2>2 DEF ParseConfirm, Tier
<1>4. ParseConfirm("vbest") = VideoSpec("best")
  <2>1. \A t \in Tier : VideoCode[t] = "vbest" <=> t = "best"
    BY DEF Tier, VideoCode
  <2>2. (CHOOSE t \in Tier : VideoCode[t] = "vbest") = "best"
    BY <2>1 DEF Tier
  <2>. QED  BY <2>1, <2>2 DEF ParseConfirm, Tier
<1>. QED  BY <1>1, <1>2, <1>3, <1>4

\* The other buttons of a card are no confirm codes.
LEMMA CodesAreConfirms ==
    ASSUME NEW code \in ConfirmCode
    PROVE  code \notin {"q", "back", "cancel", NoButton}
<1>1. CASE \E t \in Tier : code = VideoCode[t]
  BY <1>1 DEF VideoCode, Tier, NoButton
<1>2. CASE code \in {"a", "v", ""}
  BY <1>2 DEF NoButton
<1>. QED  BY <1>1, <1>2 DEF ConfirmCode

\* Every button drawn from offered_choices is one is_allowed accepts, and asks
\* for no more pixels than the source has.
LEMMA KeyboardsAreSound ==
    ASSUME NEW p \in Policy, NEW ctx \in Context, NEW code \in ConfirmCode,
           LET choices == OfferedChoices(p, ctx.key, ctx.side)
           IN  \/ code \in PreviewConfirmKeyboard(choices)
               \/ code \in QualityPickerKeyboard(choices.tiers)
    PROVE  /\ IsAllowed(p, ctx.key, ParseConfirm(code))
           /\ ParseConfirm(code).kind = "video" =>
                  ShortSide[ParseConfirm(code).tier] <= ctx.side
<1> DEFINE off == Disabled(p, ctx.key)
<1> DEFINE choices == OfferedChoices(p, ctx.key, ctx.side)
<1>0. ctx.side \in Nat
  BY FlowAssumption DEF Context, Side
<1>1. /\ choices.video = ("video" \notin off)
      /\ choices.audio = ("audio" \notin off)
      /\ choices.tiers = IF "video" \notin off THEN TiersFor(ctx.side) ELSE {}
  BY DEF OfferedChoices
<1>2. /\ ConfirmData(DirectVideoSpec) = "vbest"
      /\ ConfirmData(AudioSpec) = "a"
      /\ ConfirmData(VideoSpec("p720")) = "v720"
      /\ ConfirmData(VideoSpec("p1080")) = "v1080"
      /\ ConfirmData(VideoSpec("best")) = "vbest"
  BY DEF ConfirmData, DirectVideoSpec, AudioSpec, VideoSpec, VideoCode
<1>3. \/ code = "a" /\ "audio" \notin off
      \/ code = "vbest" /\ "video" \notin off
      \/ code = "v720" /\ "video" \notin off /\ ctx.side >= 720
      \/ code = "v1080" /\ "video" \notin off /\ ctx.side >= 1080
  <2>1. CASE code \in PreviewConfirmKeyboard(choices)
    <3>1. code # "q" /\ code # "cancel"
      BY CodesAreConfirms
    <3>. HIDE DEF off, choices
    <3>2. \/ choices.video /\ code = ConfirmData(DirectVideoSpec)
          \/ choices.audio /\ code = ConfirmData(AudioSpec)
      BY <2>1, <3>1, Zenon DEF PreviewConfirmKeyboard
    <3>3. CASE choices.video /\ code = ConfirmData(DirectVideoSpec)
      BY <3>3, <1>1, <1>2, Zenon
    <3>4. CASE choices.audio /\ code = ConfirmData(AudioSpec)
      BY <3>4, <1>1, <1>2, Zenon
    <3>. QED  BY <3>2, <3>3, <3>4
  <2>2. CASE code \in QualityPickerKeyboard(choices.tiers)
    <3>1. code # "back"
      BY CodesAreConfirms
    <3>2. PICK t \in choices.tiers : code = ConfirmData(VideoSpec(t))
      BY <2>2, <3>1 DEF QualityPickerKeyboard
    <3>3. "video" \notin off /\ t \in TiersFor(ctx.side)
      BY <1>1, <3>2
    <3>4. \/ t = "p720" /\ ctx.side >= 720
          \/ t = "p1080" /\ ctx.side >= 1080
          \/ t = "best"
      BY <1>0, <3>3 DEF TiersFor, ShortSide
    <3>. QED  BY <1>2, <3>2, <3>3, <3>4
  <2>. QED  BY <2>1, <2>2
<1>4. /\ ShortSide["p720"] = 720 /\ ShortSide["p1080"] = 1080
      /\ ShortSide["best"] = 0
  BY DEF ShortSide, NoSide
<1>. HIDE DEF off, choices
<1>5. CASE code = "a"
  BY <1>5, <1>3, CodesParse DEF off, IsAllowed, AudioSpec
<1>6. CASE code # "a"
  <2>1. /\ ParseConfirm(code).kind = "video"
        /\ "video" \notin off
        /\ ShortSide[ParseConfirm(code).tier] <= ctx.side
    BY <1>6, <1>0, <1>3, <1>4, CodesParse DEF VideoSpec
  <2>. QED  BY <2>1 DEF off, IsAllowed
<1>. QED  BY <1>5, <1>6

-----------------------------------------------------------------------------
(***************************************************************************)
(* Types.                                                                  *)
(***************************************************************************)
\* No text that a handler writes is empty.
LEMMA TextsAreWritten ==
    /\ \A n \in Note : <<n>> \in Seq(Note) /\ <<n>> # <<>>
    /\ \A s \in Seq(Note), n \in Note :
           Append(s, n) \in Seq(Note) /\ Append(s, n) # <<>>
<1>1. ASSUME NEW n \in Note
      PROVE  <<n>> \in Seq(Note) /\ <<n>> # <<>>
  OBVIOUS
<1>2. ASSUME NEW s \in Seq(Note), NEW n \in Note
      PROVE  Append(s, n) \in Seq(Note) /\ Append(s, n) # <<>>
  <2>1. Append(s, n) \in Seq(Note) /\ Len(Append(s, n)) = Len(s) + 1
    OBVIOUS
  <2>2. Len(s) \in Nat /\ Len(<<>>) = 0
    OBVIOUS
  <2>. QED  BY <2>1, <2>2
<1>. QED  BY <1>1, <1>2

\* Keyboards are made of the buttons there are.
LEMMA KeyboardTypes ==
    ASSUME NEW p \in Policy, NEW ctx \in Context \cup {NoContext}
    PROVE  LET choices == OfferedChoices(p, ctx.key, ctx.side)
           IN  /\ PreviewConfirmKeyboard(choices) \subseteq Button
               /\ QualityPickerKeyboard(choices.tiers) \subseteq Button
<1> DEFINE choices == OfferedChoices(p, ctx.key, ctx.side)
<1>1. choices.tiers \subseteq Tier
  BY DEF OfferedChoices, TiersFor, Tier
<1>2. \A spec \in DownloadSpec : ConfirmData(spec) \in ConfirmCode
  <2>1. ConfirmData(AudioSpec) \in ConfirmCode
    BY DEF ConfirmData, ConfirmCode
  <2>2. ASSUME NEW t \in Tier
        PROVE  ConfirmData(VideoSpec(t)) \in ConfirmCode
    BY DEF ConfirmData, ConfirmCode, VideoSpec, AudioSpec
  <2>. QED  BY <2>1, <2>2 DEF DownloadSpec
<1>3. DirectVideoSpec \in DownloadSpec /\ AudioSpec \in DownloadSpec
  BY DEF DirectVideoSpec, DownloadSpec, Tier
<1>4. \A t \in Tier : VideoSpec(t) \in DownloadSpec
  BY DEF DownloadSpec
<1>5. PreviewConfirmKeyboard(choices) \subseteq Button
  <2> HIDE DEF choices
  <2>. QED  BY <1>2, <1>3 DEF PreviewConfirmKeyboard, Button
<1>6. QualityPickerKeyboard(choices.tiers) \subseteq Button
  <2> HIDE DEF choices
  <2>. QED  BY <1>1, <1>2, <1>4 DEF QualityPickerKeyboard, Button
<1>. QED  BY <1>5, <1>6

\* What a button or the /download command asks for is a spec.
LEMMA SpecTypes ==
    /\ \A code \in Button \cup {NoButton} : ParseConfirm(code) \in DownloadSpec
    /\ \A side \in Nat : DefaultVideoSpec(side) \in DownloadSpec
<1>1. ASSUME NEW code
      PROVE  ParseConfirm(code) \in DownloadSpec
  <2>1. CASE \E t \in Tier : VideoCode[t] = code
    <3>1. (CHOOSE t \in Tier : VideoCode[t] = code) \in Tier
      BY <2>1
    <3>. QED  BY <2>1, <3>1 DEF ParseConfirm, DownloadSpec
  <2>2. CASE ~ \E t \in Tier : VideoCode[t] = code
    BY <2>2 DEF ParseConfirm, DownloadSpec, DefaultSpec, Tier
  <2>. QED  BY <2>1, <2>2
<1>2. \A side \in Nat : DefaultVideoSpec(side) \in DownloadSpec
  BY DEF DefaultVideoSpec, DirectVideoSpec, DownloadSpec, Tier
<1>. QED  BY <1>1, <1>2

\* Every step keeps the variables in their types.
LEMMA TypeStep == FlowInv /\ [Next]_vars => TypeOK'
<1> SUFFICES ASSUME FlowInv, [Next]_vars
             PROVE  TypeOK'
  OBVIOUS
<1> USE DEF FlowInv, TypeOK, Task, Running, Goes, storeVars, cardVars, tapVars,
            doneVars, procVars
<1>1. ASSUME NEW u \in Update, NEW c \in Card, AskPreview(u, c)
      PROVE  TypeOK'
  BY <1>1, TextsAreWritten
     DEF AskPreview, MayBegin, WriteText, Note, CardInv, Handling
<1>2. ASSUME NEW u \in Update, TurnDown(u)
      PROVE  TypeOK'
  BY <1>2 DEF TurnDown, MayBegin
<1>3. ASSUME NEW u \in Update, PreviewFails(u)
      PROVE  TypeOK'
  BY <1>3, TextsAreWritten DEF PreviewFails, WriteText, Note, CardInv, Handling
<1>4. ASSUME NEW u \in Update, NEW obs \in Context, SavePreview(u, obs)
      PROVE  TypeOK'
  BY <1>4 DEF SavePreview, CardInv, Handling
<1>5. ASSUME NEW u \in Update, ShowCard(u)
      PROVE  TypeOK'
  <2>1. on[u] \in Card /\ <<"preview">> \in Seq(Note)
    BY <1>5, TextsAreWritten DEF ShowCard, CardInv, Handling, Note
  <2>2. PreviewConfirmKeyboard(Choices(on[u])) \subseteq Button
    BY <2>1, KeyboardTypes DEF Choices
  <2>. QED  BY <1>5, <2>1, <2>2 DEF ShowCard, WriteText
<1>6. ASSUME NEW u \in Update, NEW c \in Card, NEW b \in Button, Tap(u, c, b)
      PROVE  TypeOK'
  BY <1>6 DEF Tap
<1>7. ASSUME NEW u \in Update, GetToken(u)
      PROVE  TypeOK'
  BY <1>7 DEF GetToken, MayBegin, CardInv, Handling
<1>8. ASSUME NEW u \in Update, SwapMarkup(u)
      PROVE  TypeOK'
  <2>1. on[u] \in Card
    BY <1>8 DEF SwapMarkup, CardInv, Handling
  <2>2. /\ PreviewConfirmKeyboard(Choices(on[u])) \subseteq Button
        /\ QualityPickerKeyboard(Choices(on[u]).tiers) \subseteq Button
    BY <2>1, KeyboardTypes DEF Choices
  <2>. QED  BY <1>8, <2>1, <2>2 DEF SwapMarkup
<1>9. ASSUME NEW u \in Update, PopToken(u)
      PROVE  TypeOK'
  BY <1>9 DEF PopToken, MayBegin, CardInv, Handling
<1>10. ASSUME NEW u \in Update, Admit(u)
      PROVE  TypeOK'
  BY <1>10 DEF Admit
<1>11. ASSUME NEW u \in Update, RequestDownload(u)
      PROVE  TypeOK'
  <2>1. [by |-> u, card |-> on[u], spec |-> ParseConfirm(press[u])] \in Request
    BY <1>11, SpecTypes DEF RequestDownload, CardInv, Handling, Request
  <2>2. /\ requests' \subseteq Request
        /\ task' \in [Update -> Task]
    BY <1>11, <2>1 DEF RequestDownload, Execute
  <2>. QED  BY <1>11, <2>2 DEF RequestDownload
<1>12. ASSUME NEW u \in Update, AnswerTap(u)
      PROVE  TypeOK'
  <2>0. /\ on[u] \in Card /\ seen[u] \in Seq(Note) /\ Goes(u, "over")
        /\ UNCHANGED <<storeVars, tapVars, doneVars, procVars>>
    BY <1>12 DEF AnswerTap, CardInv, Handling
  <2>1. CASE WriteText(on[u], Append(seen[u], "started"), {})
    BY <2>0, <2>1, TextsAreWritten DEF WriteText, Note
  <2>2. CASE WriteText(on[u], Append(seen[u], "failed"), {})
    BY <2>0, <2>2, TextsAreWritten DEF WriteText, Note
  <2>3. CASE UNCHANGED cardVars
    BY <2>0, <2>3
  <2>. QED  BY <1>12, <2>1, <2>2, <2>3 DEF AnswerTap
<1>13. ASSUME NEW u \in Update, DeleteToken(u)
      PROVE  TypeOK'
  BY <1>13 DEF DeleteToken, MayBegin, CardInv, Handling
<1>14. ASSUME NEW u \in Update, SayCancelled(u)
      PROVE  TypeOK'
  BY <1>14, TextsAreWritten DEF SayCancelled, WriteText, Note, CardInv, Handling
<1>15. ASSUME NEW u \in Update, NEW c \in Card, AskDownload(u, c)
      PROVE  TypeOK'
  BY <1>15, TextsAreWritten
     DEF AskDownload, MayBegin, WriteText, Note, CardInv, Handling
<1>16. ASSUME NEW u \in Update, NEW obs \in Context, DirectRequest(u, obs)
      PROVE  TypeOK'
  <2>1. obs.side \in Nat
    BY FlowAssumption DEF Context, Side
  <2>2. [by |-> u, card |-> on[u], spec |-> DefaultVideoSpec(obs.side)] \in Request
    BY <1>16, <2>1, SpecTypes DEF DirectRequest, CardInv, Handling, Request
  <2>3. /\ requests' \subseteq Request
        /\ task' \in [Update -> Task]
    BY <1>16, <2>2 DEF DirectRequest, Execute
  <2>. QED  BY <1>16, <2>3 DEF DirectRequest
<1>17. ASSUME NEW u \in Update, AnswerDirect(u)
      PROVE  TypeOK'
  BY <1>17, TextsAreWritten DEF AnswerDirect, WriteText, Note, CardInv, Handling
<1>18. ASSUME NEW u \in Update, HandlerRaises(u)
      PROVE  TypeOK'
  BY <1>18 DEF HandlerRaises
<1>19. ASSUME NEW c \in Card, ListenerEdits(c)
      PROVE  TypeOK'
  BY <1>19, TextsAreWritten
     DEF ListenerEdits, WriteText, Note, CardInv, Handling
<1>20. ASSUME NEW c \in Card, Expire(c)
      PROVE  TypeOK'
  BY <1>20 DEF Expire
<1>21. ASSUME NEW conf \in Policy, Restart(conf)
      PROVE  TypeOK'
  BY <1>21, FlowAssumption DEF Restart
<1>22. CASE UNCHANGED vars
  BY <1>22 DEF vars
<1>. QED
  BY <1>1, <1>2, <1>3, <1>4, <1>5, <1>6, <1>7, <1>8, <1>9, <1>10, <1>11, <1>12,
     <1>13, <1>14, <1>15, <1>16, <1>17, <1>18, <1>19, <1>20, <1>21, <1>22
     DEF Next, ShowStep, TapStep, DirectStep, WorldStep

\* Every step keeps a card and the handlers on it apart.
LEMMA CardStep == FlowInv /\ [Next]_vars => CardInv'
<1> SUFFICES ASSUME FlowInv, [Next]_vars
             PROVE  CardInv'
  OBVIOUS
<1> USE DEF FlowInv, TypeOK, Task, Running, Goes, storeVars, cardVars, tapVars,
            doneVars, procVars, CardInv, Handling, Opening, Blank
<1>1. ASSUME NEW u \in Update, NEW c \in Card, AskPreview(u, c)
      PROVE  CardInv'
  BY <1>1, TextsAreWritten DEF AskPreview, MayBegin, WriteText, Note
<1>2. ASSUME NEW u \in Update, TurnDown(u)
      PROVE  CardInv'
  BY <1>2 DEF TurnDown, MayBegin
<1>3. ASSUME NEW u \in Update, PreviewFails(u)
      PROVE  CardInv'
  BY <1>3, TextsAreWritten DEF PreviewFails, WriteText, Note
<1>4. ASSUME NEW u \in Update, NEW obs \in Context, SavePreview(u, obs)
      PROVE  CardInv'
  BY <1>4 DEF SavePreview
<1>5. ASSUME NEW u \in Update, ShowCard(u)
      PROVE  CardInv'
  BY <1>5, TextsAreWritten DEF ShowCard, WriteText, Note
<1>6. ASSUME NEW u \in Update, NEW c \in Card, NEW b \in Button, Tap(u, c, b)
      PROVE  CardInv'
  BY <1>6 DEF Tap
<1>7. ASSUME NEW u \in Update, GetToken(u)
      PROVE  CardInv'
  BY <1>7 DEF GetToken, MayBegin
<1>8. ASSUME NEW u \in Update, SwapMarkup(u)
      PROVE  CardInv'
  BY <1>8 DEF SwapMarkup
<1>9. ASSUME NEW u \in Update, PopToken(u)
      PROVE  CardInv'
  BY <1>9 DEF PopToken, MayBegin
<1>10. ASSUME NEW u \in Update, Admit(u)
      PROVE  CardInv'
  BY <1>10 DEF Admit
<1>11. ASSUME NEW u \in Update, RequestDownload(u)
      PROVE  CardInv'
  <2>1. \E to \in {"refused", "queued", "unqueued"} : Goes(u, to)
    BY <1>11 DEF RequestDownload, Execute
  <2>. QED  BY <1>11, <2>1 DEF RequestDownload
<1>12. ASSUME NEW u \in Update, AnswerTap(u)
      PROVE  CardInv'
  <2>0. /\ on[u] \in Card /\ seen[u] \in Seq(Note) /\ Goes(u, "over")
        /\ task[u] \in Running
        /\ UNCHANGED <<storeVars, tapVars, doneVars, procVars>>
    BY <1>12 DEF AnswerTap
  <2>1. CASE WriteText(on[u], Append(seen[u], "started"), {})
    BY <2>0, <2>1, TextsAreWritten DEF WriteText, Note
  <2>2. CASE WriteText(on[u], Append(seen[u], "failed"), {})
    BY <2>0, <2>2, TextsAreWritten DEF WriteText, Note
  <2>3. CASE UNCHANGED cardVars
    BY <2>0, <2>3
  <2>. QED  BY <1>12, <2>1, <2>2, <2>3 DEF AnswerTap
<1>13. ASSUME NEW u \in Update, DeleteToken(u)
      PROVE  CardInv'
  BY <1>13 DEF DeleteToken, MayBegin
<1>14. ASSUME NEW u \in Update, SayCancelled(u)
      PROVE  CardInv'
  BY <1>14, TextsAreWritten DEF SayCancelled, WriteText, Note
<1>15. ASSUME NEW u \in Update, NEW c \in Card, AskDownload(u, c)
      PROVE  CardInv'
  BY <1>15, TextsAreWritten DEF AskDownload, MayBegin, WriteText, Note
<1>16. ASSUME NEW u \in Update, NEW obs \in Context, DirectRequest(u, obs)
      PROVE  CardInv'
  <2>1. \E to \in {"refused", "over", "unqueued"} : Goes(u, to)
    BY <1>16 DEF DirectRequest, Execute
  <2>. QED  BY <1>16, <2>1 DEF DirectRequest
<1>17. ASSUME NEW u \in Update, AnswerDirect(u)
      PROVE  CardInv'
  BY <1>17, TextsAreWritten DEF AnswerDirect, WriteText, Note
<1>18. ASSUME NEW u \in Update, HandlerRaises(u)
      PROVE  CardInv'
  BY <1>18 DEF HandlerRaises
<1>19. ASSUME NEW c \in Card, ListenerEdits(c)
      PROVE  CardInv'
  BY <1>19, TextsAreWritten DEF ListenerEdits, WriteText, Note
<1>20. ASSUME NEW c \in Card, Expire(c)
      PROVE  CardInv'
  BY <1>20 DEF Expire
<1>21. ASSUME NEW conf \in Policy, Restart(conf)
      PROVE  CardInv'
  BY <1>21 DEF Restart
<1>22. CASE UNCHANGED vars
  BY <1>22 DEF vars
<1>. QED
  BY <1>1, <1>2, <1>3, <1>4, <1>5, <1>6, <1>7, <1>8, <1>9, <1>10, <1>11, <1>12,
     <1>13, <1>14, <1>15, <1>16, <1>17, <1>18, <1>19, <1>20, <1>21, <1>22
     DEF Next, ShowStep, TapStep, DirectStep, WorldStep

\* Every step leaves at most one update that may still use a card.
LEMMA SpendStep == FlowInv /\ [Next]_vars => SpendInv'
<1> SUFFICES ASSUME FlowInv, [Next]_vars
             PROVE  SpendInv'
  OBVIOUS
<1> USE DEF FlowInv, TypeOK, Task, Running, Goes, storeVars, cardVars, tapVars,
            doneVars, procVars, CardInv, Handling, Opening, Blank, SpendInv,
            Deciding, OneRequestPerCard, CancelIsFinal, Request
<1>1. ASSUME NEW u \in Update, NEW c \in Card, AskPreview(u, c)
      PROVE  SpendInv'
  BY <1>1, TextsAreWritten DEF AskPreview, MayBegin, WriteText, Note
<1>2. ASSUME NEW u \in Update, TurnDown(u)
      PROVE  SpendInv'
  BY <1>2 DEF TurnDown, MayBegin
<1>3. ASSUME NEW u \in Update, PreviewFails(u)
      PROVE  SpendInv'
  BY <1>3, TextsAreWritten DEF PreviewFails, WriteText, Note
<1>4. ASSUME NEW u \in Update, NEW obs \in Context, SavePreview(u, obs)
      PROVE  SpendInv'
  BY <1>4 DEF SavePreview
<1>5. ASSUME NEW u \in Update, ShowCard(u)
      PROVE  SpendInv'
  BY <1>5, TextsAreWritten DEF ShowCard, WriteText, Note
<1>6. ASSUME NEW u \in Update, NEW c \in Card, NEW b \in Button, Tap(u, c, b)
      PROVE  SpendInv'
  BY <1>6 DEF Tap
<1>7. ASSUME NEW u \in Update, GetToken(u)
      PROVE  SpendInv'
  BY <1>7 DEF GetToken, MayBegin
<1>8. ASSUME NEW u \in Update, SwapMarkup(u)
      PROVE  SpendInv'
  BY <1>8 DEF SwapMarkup
<1>9. ASSUME NEW u \in Update, PopToken(u)
      PROVE  SpendInv'
  BY <1>9 DEF PopToken, MayBegin
<1>10. ASSUME NEW u \in Update, Admit(u)
      PROVE  SpendInv'
  BY <1>10 DEF Admit
<1>11. ASSUME NEW u \in Update, RequestDownload(u)
      PROVE  SpendInv'
  <2>0. task[u] \in Deciding /\ on[u] \in Card
    BY <1>11 DEF RequestDownload
  <2>1. CASE UNCHANGED requests /\ Goes(u, "refused")
    BY <1>11, <2>1 DEF RequestDownload
  <2>2. ASSUME NEW to \in {"queued", "unqueued"}, Goes(u, to),
               requests' = requests \cup {[by |-> u, card |-> on[u],
                                          spec |-> ParseConfirm(press[u])]}
        PROVE  SpendInv'
    BY <1>11, <2>0, <2>2 DEF RequestDownload
  <2>. QED  BY <1>11, <2>1, <2>2 DEF RequestDownload, Execute
<1>12. ASSUME NEW u \in Update, AnswerTap(u)
      PROVE  SpendInv'
  <2>0. /\ on[u] \in Card /\ seen[u] \in Seq(Note) /\ Goes(u, "over")
        /\ task[u] \in Running
        /\ UNCHANGED <<storeVars, tapVars, doneVars, procVars>>
    BY <1>12 DEF AnswerTap
  <2>1. CASE WriteText(on[u], Append(seen[u], "started"), {})
    BY <2>0, <2>1, TextsAreWritten DEF WriteText, Note
  <2>2. CASE WriteText(on[u], Append(seen[u], "failed"), {})
    BY <2>0, <2>2, TextsAreWritten DEF WriteText, Note
  <2>3. CASE UNCHANGED cardVars
    BY <2>0, <2>3
  <2>. QED  BY <1>12, <2>1, <2>2, <2>3 DEF AnswerTap
<1>13. ASSUME NEW u \in Update, DeleteToken(u)
      PROVE  SpendInv'
  BY <1>13 DEF DeleteToken, MayBegin
<1>14. ASSUME NEW u \in Update, SayCancelled(u)
      PROVE  SpendInv'
  BY <1>14, TextsAreWritten DEF SayCancelled, WriteText, Note
<1>15. ASSUME NEW u \in Update, NEW c \in Card, AskDownload(u, c)
      PROVE  SpendInv'
  BY <1>15, TextsAreWritten DEF AskDownload, MayBegin, WriteText, Note
<1>16. ASSUME NEW u \in Update, NEW obs \in Context, DirectRequest(u, obs)
      PROVE  SpendInv'
  <2>0. task[u] \in Deciding /\ on[u] \in Card
    BY <1>16 DEF DirectRequest
  <2>1. CASE UNCHANGED requests /\ Goes(u, "refused")
    BY <1>16, <2>1 DEF DirectRequest
  <2>2. ASSUME NEW to \in {"over", "unqueued"}, Goes(u, to),
               requests' = requests \cup {[by |-> u, card |-> on[u],
                                          spec |-> DefaultVideoSpec(obs.side)]}
        PROVE  SpendInv'
    BY <1>16, <2>0, <2>2 DEF DirectRequest
  <2>. QED  BY <1>16, <2>1, <2>2 DEF DirectRequest, Execute
<1>17. ASSUME NEW u \in Update, AnswerDirect(u)
      PROVE  SpendInv'
  BY <1>17, TextsAreWritten DEF AnswerDirect, WriteText, Note
<1>18. ASSUME NEW u \in Update, HandlerRaises(u)
      PROVE  SpendInv'
  BY <1>18 DEF HandlerRaises
<1>19. ASSUME NEW c \in Card, ListenerEdits(c)
      PROVE  SpendInv'
  BY <1>19, TextsAreWritten DEF ListenerEdits, WriteText, Note
<1>20. ASSUME NEW c \in Card, Expire(c)
      PROVE  SpendInv'
  BY <1>20 DEF Expire
<1>21. ASSUME NEW conf \in Policy, Restart(conf)
      PROVE  SpendInv'
  BY <1>21 DEF Restart
<1>22. CASE UNCHANGED vars
  BY <1>22 DEF vars
<1>. QED
  BY <1>1, <1>2, <1>3, <1>4, <1>5, <1>6, <1>7, <1>8, <1>9, <1>10, <1>11, <1>12,
     <1>13, <1>14, <1>15, <1>16, <1>17, <1>18, <1>19, <1>20, <1>21, <1>22
     DEF Next, ShowStep, TapStep, DirectStep, WorldStep

\* Every step draws buttons the policy allows and the source can fill.
LEMMA DrawStep == FlowInv /\ [Next]_vars => DrawInv'
<1> SUFFICES ASSUME FlowInv, [Next]_vars
             PROVE  DrawInv'
  OBVIOUS
<1> USE DEF FlowInv, TypeOK, Task, Running, Goes, storeVars, cardVars, tapVars,
            doneVars, procVars, CardInv, Handling, Opening, Blank, DrawInv,
            DrawnButtonsAreAllowed, Fits
<1>1. ASSUME NEW u \in Update, NEW c \in Card, AskPreview(u, c)
      PROVE  DrawInv'
  BY <1>1, TextsAreWritten DEF AskPreview, MayBegin, WriteText, Note
<1>2. ASSUME NEW u \in Update, TurnDown(u)
      PROVE  DrawInv'
  BY <1>2 DEF TurnDown, MayBegin
<1>3. ASSUME NEW u \in Update, PreviewFails(u)
      PROVE  DrawInv'
  BY <1>3, TextsAreWritten DEF PreviewFails, WriteText, Note
<1>4. ASSUME NEW u \in Update, NEW obs \in Context, SavePreview(u, obs)
      PROVE  DrawInv'
  BY <1>4 DEF SavePreview
<1>5. ASSUME NEW u \in Update, ShowCard(u)
      PROVE  DrawInv'
  <2>1. /\ on[u] \in Card \ OldCard
        /\ context[on[u]] \in Context
    BY <1>5 DEF ShowCard
  <2>2. \A code \in buttons'[on[u]] \cap ConfirmCode :
            /\ IsAllowed(policy, context[on[u]].key, ParseConfirm(code))
            /\ Fits(on[u], code)
    BY <1>5, <2>1, KeyboardsAreSound DEF ShowCard, Choices, WriteText
  <2>. QED  BY <1>5, <2>1, <2>2 DEF ShowCard, WriteText
<1>6. ASSUME NEW u \in Update, NEW c \in Card, NEW b \in Button, Tap(u, c, b)
      PROVE  DrawInv'
  BY <1>6, CodesAreConfirms DEF Tap
<1>7. ASSUME NEW u \in Update, GetToken(u)
      PROVE  DrawInv'
  BY <1>7, CodesAreConfirms DEF GetToken, MayBegin
<1>8. ASSUME NEW u \in Update, SwapMarkup(u)
      PROVE  DrawInv'
  <2>1. /\ on[u] \in Card \ OldCard
        /\ context[on[u]] \in Context
    BY <1>8 DEF SwapMarkup
  <2>2. \A code \in buttons'[on[u]] \cap ConfirmCode :
            /\ IsAllowed(policy, context[on[u]].key, ParseConfirm(code))
            /\ Fits(on[u], code)
    BY <1>8, <2>1, KeyboardsAreSound DEF SwapMarkup, Choices
  <2>3. /\ \A c \in Card : c # on[u] => buttons'[c] = buttons[c] /\ drawn'[c] = drawn[c]
        /\ drawn'[on[u]] = boot
        /\ Goes(u, "over")
        /\ UNCHANGED <<storeVars, text, tapVars, doneVars, procVars>>
    BY <1>8, <2>1 DEF SwapMarkup
  <2>4. ASSUME NEW c \in Card \ OldCard, NEW code \in buttons'[c] \cap ConfirmCode
        PROVE  Fits(c, code)'
    BY <2>2, <2>3
  <2>5. ASSUME NEW c \in Card, drawn'[c] = boot,
               NEW code \in buttons'[c] \cap ConfirmCode
        PROVE  IsAllowed(policy, context[c].key, ParseConfirm(code))
    BY <2>2, <2>3, <2>5
  <2>6. \A c \in Card : drawn'[c] <= boot
    <3>1. boot \in Nat /\ (\A c \in Card : drawn[c] \in Nat /\ drawn[c] <= boot)
      BY FlowAssumption
    <3>2. ASSUME NEW c \in Card
          PROVE  drawn'[c] = boot \/ drawn'[c] = drawn[c]
      BY <2>3
    <3>. HIDE DEF FlowInv
    <3>. QED  BY <3>1, <3>2
  <2>7. DrawnButtonsAreAllowed'
    BY <2>3, <2>5
  <2>8. \A v \in Update :
            /\ task'[v] \in {"sent", "claimed", "admitted"}
            /\ on'[v] \notin OldCard
            /\ press'[v] \in ConfirmCode
            => Fits(on[v], press[v])'
    BY <2>3
  <2>. HIDE DEF DrawnButtonsAreAllowed, Fits
  <2>. QED  BY <2>3, <2>4, <2>6, <2>7, <2>8
<1>9. ASSUME NEW u \in Update, PopToken(u)
      PROVE  DrawInv'
  BY <1>9, CodesAreConfirms DEF PopToken, MayBegin
<1>10. ASSUME NEW u \in Update, Admit(u)
      PROVE  DrawInv'
  BY <1>10 DEF Admit
<1>11. ASSUME NEW u \in Update, RequestDownload(u)
      PROVE  DrawInv'
  <2>1. \E to \in {"refused", "queued", "unqueued"} : Goes(u, to)
    BY <1>11 DEF RequestDownload, Execute
  <2>. QED  BY <1>11, <2>1 DEF RequestDownload
<1>12. ASSUME NEW u \in Update, AnswerTap(u)
      PROVE  DrawInv'
  <2>0. /\ on[u] \in Card /\ seen[u] \in Seq(Note) /\ Goes(u, "over")
        /\ task[u] \in Running
        /\ UNCHANGED <<storeVars, tapVars, doneVars, procVars>>
    BY <1>12 DEF AnswerTap
  <2>1. CASE WriteText(on[u], Append(seen[u], "started"), {})
    BY <2>0, <2>1, TextsAreWritten DEF WriteText, Note
  <2>2. CASE WriteText(on[u], Append(seen[u], "failed"), {})
    BY <2>0, <2>2, TextsAreWritten DEF WriteText, Note
  <2>3. CASE UNCHANGED cardVars
    BY <2>0, <2>3
  <2>. QED  BY <1>12, <2>1, <2>2, <2>3 DEF AnswerTap
<1>13. ASSUME NEW u \in Update, DeleteToken(u)
      PROVE  DrawInv'
  BY <1>13 DEF DeleteToken, MayBegin
<1>14. ASSUME NEW u \in Update, SayCancelled(u)
      PROVE  DrawInv'
  BY <1>14, TextsAreWritten DEF SayCancelled, WriteText, Note
<1>15. ASSUME NEW u \in Update, NEW c \in Card, AskDownload(u, c)
      PROVE  DrawInv'
  BY <1>15, TextsAreWritten DEF AskDownload, MayBegin, WriteText, Note
<1>16. ASSUME NEW u \in Update, NEW obs \in Context, DirectRequest(u, obs)
      PROVE  DrawInv'
  <2>1. \E to \in {"refused", "over", "unqueued"} : Goes(u, to)
    BY <1>16 DEF DirectRequest, Execute
  <2>. QED  BY <1>16, <2>1 DEF DirectRequest
<1>17. ASSUME NEW u \in Update, AnswerDirect(u)
      PROVE  DrawInv'
  BY <1>17, TextsAreWritten DEF AnswerDirect, WriteText, Note
<1>18. ASSUME NEW u \in Update, HandlerRaises(u)
      PROVE  DrawInv'
  BY <1>18 DEF HandlerRaises
<1>19. ASSUME NEW c \in Card, ListenerEdits(c)
      PROVE  DrawInv'
  BY <1>19, TextsAreWritten DEF ListenerEdits, WriteText, Note
<1>20. ASSUME NEW c \in Card, Expire(c)
      PROVE  DrawInv'
  BY <1>20 DEF Expire
<1>21. ASSUME NEW conf \in Policy, Restart(conf)
      PROVE  DrawInv'
  BY <1>21 DEF Restart
<1>22. CASE UNCHANGED vars
  BY <1>22 DEF vars
<1>. QED
  BY <1>1, <1>2, <1>3, <1>4, <1>5, <1>6, <1>7, <1>8, <1>9, <1>10, <1>11, <1>12,
     <1>13, <1>14, <1>15, <1>16, <1>17, <1>18, <1>19, <1>20, <1>21, <1>22
     DEF Next, ShowStep, TapStep, DirectStep, WorldStep

-----------------------------------------------------------------------------
(***************************************************************************)
(* Theorems.                                                               *)
(***************************************************************************)
\* The bot starts with nothing but the cards of older builds in the chats.
LEMMA FlowInit == Init => FlowInv
<1> SUFFICES ASSUME Init PROVE FlowInv
  OBVIOUS
<1>1. \A c \in Card : Blank(c) <=> c \notin OldCard
  BY TextsAreWritten DEF Init, Blank, Note
<1>2. {"a", "v", "cancel"} \subseteq Button
  BY DEF Button, ConfirmCode
<1>3. TypeOK
  <2>1. <<"preview">> \in Seq(Note) /\ <<>> \in Seq(Note)
    BY TextsAreWritten DEF Note
  <2>. QED  BY <1>2, <2>1, FlowAssumption DEF Init, TypeOK, Task
<1>4. CardInv
  BY <1>1 DEF Init, CardInv, Handling, Opening, Running
<1>5. SpendInv
  BY DEF Init, SpendInv, Deciding, OneRequestPerCard, CancelIsFinal
<1>6. DrawInv
  BY FlowAssumption DEF Init, DrawInv, DrawnButtonsAreAllowed, Opening
<1>. QED  BY <1>3, <1>4, <1>5, <1>6 DEF FlowInv

\* The handlers and the store keep FlowInv, for any number of updates, cards,
\* restarts and overlapping handlers.
THEOREM FlowInvariance == Spec => []FlowInv
<1>1. FlowInv /\ [Next]_vars => FlowInv'
  BY TypeStep, CardStep, SpendStep, DrawStep DEF FlowInv
<1>. QED  BY FlowInit, <1>1, PTL DEF Spec

\* A card is turned into at most one request, however its taps interleave
\* (GETDEL in RedisPreviewContextStore.pop).
THEOREM FirstTapWins == Spec => []OneRequestPerCard
<1>1. FlowInv => OneRequestPerCard
  BY DEF FlowInv, SpendInv
<1>. QED  BY FlowInvariance, <1>1, PTL

\* A cancel that found the token alive keeps the card from being downloaded
\* (handle_cancel_download).
THEOREM CancelWins == Spec => []CancelIsFinal
<1>1. FlowInv => CancelIsFinal
  BY DEF FlowInv, SpendInv
<1>. QED  BY FlowInvariance, <1>1, PTL

\* No button drawn by a bot process is refused by that process: the card and
\* the use case ask one FormatPolicy.
THEOREM ButtonsAgreeWithPolicy == Spec => []DrawnButtonsAreAllowed
<1>1. FlowInv => DrawnButtonsAreAllowed
  BY DEF FlowInv, DrawInv
<1>. QED  BY FlowInvariance, <1>1, PTL

\* Every request is permitted by the policy in force when it is made, and asks
\* for no more pixels than the preview observed, however old the button.
THEOREM RequestsArePermitted == Spec => OnlyPermittedRequests
<1> DEFINE Permitted(r) ==
        /\ IsAllowed(policy, context'[r.card].key, r.spec)
        /\ r.spec.kind = "video" => ShortSide[r.spec.tier] <= context'[r.card].side
<1>1. ASSUME FlowInv, [Next]_vars, NEW r \in requests' \ requests
      PROVE  Permitted(r)
  <2>1. ASSUME NEW u \in Update, RequestDownload(u)
        PROVE  Permitted(r)
    <3>1. /\ IsAllowed(policy, context[on[u]].key, ParseConfirm(press[u]))
          /\ r = [by |-> u, card |-> on[u], spec |-> ParseConfirm(press[u])]
          /\ context' = context
      BY <2>1, <1>1 DEF RequestDownload, Execute, storeVars
    <3>2. Fits(on[u], press[u])
      BY <2>1, <1>1 DEF RequestDownload, FlowInv, DrawInv
    <3>. QED  BY <3>1, <3>2 DEF Fits
  <2>2. ASSUME NEW u \in Update, NEW obs \in Context, DirectRequest(u, obs)
        PROVE  Permitted(r)
    <3>1. on[u] \in Card
      BY <2>2, <1>1 DEF DirectRequest, FlowInv, CardInv, Handling, Running
    <3>2. /\ IsAllowed(policy, obs.key, DefaultVideoSpec(obs.side))
          /\ r = [by |-> u, card |-> on[u], spec |-> DefaultVideoSpec(obs.side)]
          /\ context'[r.card] = obs
      BY <2>2, <1>1, <3>1 DEF DirectRequest, Execute, FlowInv, TypeOK
    <3>3. obs.side \in Nat
      BY FlowAssumption DEF Context, Side
    <3>4. ShortSide[DefaultVideoSpec(obs.side).tier] <= obs.side
      <4>1. ShortSide["p720"] = 720 /\ ShortSide["best"] = 0
        BY DEF ShortSide, NoSide
      <4>2. TiersFor(obs.side) # {} => obs.side >= 720
        BY <3>3 DEF TiersFor, ShortSide
      <4>. QED  BY <3>3, <4>1, <4>2
                DEF DefaultVideoSpec, DirectVideoSpec, VideoSpec
    <3>. QED  BY <3>2, <3>4
  <2>3. CASE UNCHANGED requests
    BY <2>3, <1>1
  <2>. QED
    BY <2>1, <2>2, <2>3, <1>1
       DEF Next, ShowStep, TapStep, DirectStep, WorldStep, vars, doneVars,
           AskPreview, TurnDown, PreviewFails, SavePreview, ShowCard, Tap,
           GetToken, SwapMarkup, PopToken, Admit, AnswerTap, DeleteToken,
           SayCancelled, AskDownload, AnswerDirect, HandlerRaises,
           ListenerEdits, Expire, Restart
<1>2. FlowInv /\ [Next]_vars =>
          [\A r \in requests' \ requests : Permitted(r)]_vars
  BY <1>1
<1>. QED  BY FlowInvariance, <1>2, PTL DEF Spec, OnlyPermittedRequests

=============================================================================
