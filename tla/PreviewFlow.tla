---------------------------- MODULE PreviewFlow ----------------------------
(***************************************************************************)
(* From a link to a saved request: the handlers of download_flow.py and    *)
(* download.py, the token store they share, and the card they edit.        *)
(*                                                                         *)
(* aiogram runs every update in a task of its own, so handlers of the same *)
(* card overlap: an action is one await of a handler, that is one call to  *)
(* Redis, to the use case or to Telegram.  An update is handled once.      *)
(*                                                                         *)
(* A card is a message of the bot: the notes its text is made of and the   *)
(* buttons below it.  Its token is as fresh as the card, so cards name     *)
(* tokens.  A tap reaches the bot with the text the card had when it was   *)
(* pressed, and may wait there while other handlers go on.                 *)
(***************************************************************************)
EXTENDS FormatPolicy, Sequences, FiniteSets

CONSTANTS
    Update,         \* messages and taps the users send
    Card,           \* messages the bot answers with
    OldCard,        \* those an older build rendered, before this one started
    SideSeen,       \* the short sides previews observe
    Overlap,        \* how many handlers may run at once
    MaxBoots        \* bound: how often the bot process is started

ASSUME FlowAssumption ==
    /\ OldCard \subseteq Card
    /\ SideSeen \subseteq Side
    /\ Overlap \in Nat \ {0}
    /\ MaxBoots \in Nat \ {0}

VARIABLES
    policy,     \* the FormatPolicy this bot process was started with
    token,      \* the store's entry for the card's token
    context,    \* what the preview saved under it
    text,       \* the card's text, as the notes it is made of
    buttons,    \* the card's inline keyboard
    drawn,      \* the boot that drew the keyboard
    task,       \* where the handler of an update stands
    on,         \* the card the update is about
    press,      \* the button it pressed
    seen,       \* the text of the card when it was pressed
    requests,   \* the rows made: which update, for which card, which spec
    dismissed,  \* cards whose live token a cancel deleted
    boot        \* how often the bot process was started

storeVars == <<token, context>>
cardVars  == <<text, buttons, drawn>>
tapVars   == <<on, press, seen>>
doneVars  == <<requests, dismissed>>
procVars  == <<policy, boot>>

vars == <<policy, token, context, text, buttons, drawn, task, on, press, seen,
          requests, dismissed, boot>>

Context   == [key : Key, side : SideSeen]
NoContext == [key |-> "none", side |-> NoSide]
NoCard    == "none"
NoButton  == "none"

Note == {"fetching", "preview", "error", "started", "failed", "cancelled",
         "progress"}

\* Positions of a handler.  "sent" has not run yet, "over" has returned.
Running == {"fetching", "saved", "looked", "claimed", "admitted", "queued",
            "unqueued", "deleted", "direct", "refused"}
Task    == {"none", "sent", "over"} \cup Running

Request == [by : Update, card : Card, spec : DownloadSpec]

TypeOK ==
    /\ policy \in Policy
    /\ token \in [Card -> {"none", "live", "unreadable"}]
    /\ context \in [Card -> Context \cup {NoContext}]
    /\ text \in [Card -> Seq(Note)]
    /\ buttons \in [Card -> SUBSET Button]
    /\ drawn \in [Card -> 0 .. MaxBoots]
    /\ task \in [Update -> Task]
    /\ on \in [Update -> Card \cup {NoCard}]
    /\ press \in [Update -> Button \cup {NoButton}]
    /\ seen \in [Update -> Seq(Note)]
    /\ requests \subseteq Request
    /\ dismissed \subseteq Card
    /\ boot \in 1 .. MaxBoots

\* Cards of an older build are in the chat already: their buttons carry the
\* codes of that build and their tokens a bare URL.
Init ==
    /\ policy \in Policy
    /\ token = [c \in Card |-> IF c \in OldCard THEN "unreadable" ELSE "none"]
    /\ context = [c \in Card |-> NoContext]
    /\ text = [c \in Card |-> IF c \in OldCard THEN <<"preview">> ELSE <<>>]
    /\ buttons = [c \in Card |-> IF c \in OldCard THEN {"a", "v", "cancel"}
                                 ELSE {}]
    /\ drawn = [c \in Card |-> 0]
    /\ task = [u \in Update |-> "none"]
    /\ on = [u \in Update |-> NoCard]
    /\ press = [u \in Update |-> NoButton]
    /\ seen = [u \in Update |-> <<>>]
    /\ requests = {}
    /\ dismissed = {}
    /\ boot = 1

-----------------------------------------------------------------------------
Busy == {u \in Update : task[u] \in Running}

MayBegin(u, from) == task[u] = from /\ Cardinality(Busy) < Overlap

Goes(u, to) == task' = [task EXCEPT ![u] = to]

\* message.answer and edit_text: the text is replaced, and the keyboard goes
\* unless the call brings one.
WriteText(c, notes, keyboard) ==
    /\ text' = [text EXCEPT ![c] = notes]
    /\ buttons' = [buttons EXCEPT ![c] = keyboard]
    /\ drawn' = [drawn EXCEPT ![c] = boot]

Choices(c) == OfferedChoices(policy, context[c].key, context[c].side)

Blank(c) == text[c] = <<>>

(***************************************************************************)
(* _show_preview: validate, take a preview slot, answer, extract, save the *)
(* context under a fresh token, and turn the answer into the card.         *)
(***************************************************************************)
AskPreview(u, c) ==
    /\ MayBegin(u, "none")
    /\ Blank(c)
    /\ Goes(u, "fetching")
    /\ on' = [on EXCEPT ![u] = c]
    /\ WriteText(c, <<"fetching">>, {})
    /\ UNCHANGED <<storeVars, press, seen, doneVars, procVars>>

\* A bad link, or no slot left: the user is told, and there is no card.
TurnDown(u) ==
    /\ MayBegin(u, "none")
    /\ Goes(u, "over")
    /\ UNCHANGED <<storeVars, cardVars, tapVars, doneVars, procVars>>

PreviewFails(u) ==
    /\ task[u] \in {"fetching", "direct"}
    /\ Goes(u, "over")
    /\ WriteText(on[u], <<"error">>, {})
    /\ UNCHANGED <<storeVars, tapVars, doneVars, procVars>>

SavePreview(u, observed) ==
    /\ task[u] = "fetching"
    /\ Goes(u, "saved")
    /\ token' = [token EXCEPT ![on[u]] = "live"]
    /\ context' = [context EXCEPT ![on[u]] = observed]
    /\ UNCHANGED <<cardVars, tapVars, doneVars, procVars>>

ShowCard(u) ==
    /\ task[u] = "saved"
    /\ Goes(u, "over")
    /\ WriteText(on[u], <<"preview">>, PreviewConfirmKeyboard(Choices(on[u])))
    /\ UNCHANGED <<storeVars, tapVars, doneVars, procVars>>

(***************************************************************************)
(* A tap on a button the card has.                                         *)
(***************************************************************************)
Tap(u, c, b) ==
    /\ task[u] = "none"
    /\ b \in buttons[c]
    /\ Goes(u, "sent")
    /\ on' = [on EXCEPT ![u] = c]
    /\ press' = [press EXCEPT ![u] = b]
    /\ seen' = [seen EXCEPT ![u] = text[c]]
    /\ UNCHANGED <<storeVars, cardVars, doneVars, procVars>>

(***************************************************************************)
(* handle_open_quality_picker and handle_back_to_format: the token is only *)
(* read, and the keyboard derived anew from what it holds.                 *)
(***************************************************************************)
GetToken(u) ==
    /\ MayBegin(u, "sent")
    /\ press[u] \in {"q", "back"}
    /\ Goes(u, IF token[on[u]] = "live" THEN "looked" ELSE "over")
    /\ UNCHANGED <<storeVars, cardVars, tapVars, doneVars, procVars>>

SwapMarkup(u) ==
    LET c == on[u]
    IN  /\ task[u] = "looked"
        /\ Goes(u, "over")
        /\ buttons' = [buttons EXCEPT ![c] =
               IF press[u] = "q" /\ Choices(c).tiers # {}
               THEN QualityPickerKeyboard(Choices(c).tiers)
               ELSE PreviewConfirmKeyboard(Choices(c))]
        /\ drawn' = [drawn EXCEPT ![c] = boot]
        /\ UNCHANGED <<storeVars, text, tapVars, doneVars, procVars>>

(***************************************************************************)
(* handle_confirm_download: claim the token, take a download slot, create  *)
(* and enqueue the request, edit the card.                                 *)
(***************************************************************************)
\* A bug of PopToken: the entry is read, and not taken.
PeekToken(u) ==
    /\ MayBegin(u, "sent")
    /\ press[u] \in ConfirmCode
    /\ Goes(u, IF token[on[u]] = "live" THEN "claimed" ELSE "over")
    /\ UNCHANGED <<storeVars, cardVars, tapVars, doneVars, procVars>>

PopToken(u) ==
    /\ MayBegin(u, "sent")
    /\ press[u] \in ConfirmCode
    /\ Goes(u, IF token[on[u]] = "live" THEN "claimed" ELSE "over")
    /\ token' = [token EXCEPT ![on[u]] = "none"]
    /\ UNCHANGED <<context, cardVars, tapVars, doneVars, procVars>>

\* Denied, or a card Telegram no longer gives access to: the token is spent.
Admit(u) ==
    /\ task[u] = "claimed"
    /\ \E to \in {"admitted", "over"} : Goes(u, to)
    /\ UNCHANGED <<storeVars, cardVars, tapVars, doneVars, procVars>>

\* A bug of Execute: the buttons are trusted, the policy is not asked.
ExecuteUnchecked(u, c, key, spec, to) ==
    /\ \E q \in {to, "unqueued"} : Goes(u, q)
    /\ requests' = requests \cup {[by |-> u, card |-> c, spec |-> spec]}

\* RequestDownloadUseCase.execute: refused with nothing saved, or saved and
\* then enqueued or not.
Execute(u, c, key, spec, to) ==
    \/ /\ ~ IsAllowed(policy, key, spec)
       /\ Goes(u, "refused")
       /\ UNCHANGED requests
    \/ /\ IsAllowed(policy, key, spec)
       /\ \E q \in {to, "unqueued"} : Goes(u, q)
       /\ requests' = requests \cup {[by |-> u, card |-> c, spec |-> spec]}

RequestDownload(u) ==
    /\ task[u] = "admitted"
    /\ Execute(u, on[u], context[on[u]].key, ParseConfirm(press[u]), "queued")
    /\ UNCHANGED <<storeVars, cardVars, tapVars, dismissed, procVars>>

\* A refused tap only gets an alert; the others become part of the card.
AnswerTap(u) ==
    /\ press[u] # NoButton
    /\ task[u] \in {"queued", "unqueued", "refused"}
    /\ Goes(u, "over")
    /\ \/ /\ task[u] = "queued"
          /\ WriteText(on[u], Append(seen[u], "started"), {})
       \/ /\ task[u] = "unqueued"
          /\ WriteText(on[u], Append(seen[u], "failed"), {})
       \/ /\ task[u] = "refused"
          /\ UNCHANGED cardVars
    /\ UNCHANGED <<storeVars, tapVars, doneVars, procVars>>

(***************************************************************************)
(* handle_cancel_download: delete the token, whatever it is, and say so.   *)
(***************************************************************************)
\* A bug of DeleteToken: only the card is edited.
DeleteNothing(u) ==
    /\ MayBegin(u, "sent")
    /\ press[u] = "cancel"
    /\ Goes(u, "deleted")
    /\ dismissed' = IF token[on[u]] = "live" THEN dismissed \cup {on[u]}
                    ELSE dismissed
    /\ UNCHANGED <<storeVars, cardVars, tapVars, requests, procVars>>

DeleteToken(u) ==
    /\ MayBegin(u, "sent")
    /\ press[u] = "cancel"
    /\ Goes(u, "deleted")
    /\ token' = [token EXCEPT ![on[u]] = "none"]
    /\ dismissed' = IF token[on[u]] = "live" THEN dismissed \cup {on[u]}
                    ELSE dismissed
    /\ UNCHANGED <<context, cardVars, tapVars, requests, procVars>>

SayCancelled(u) ==
    /\ task[u] = "deleted"
    /\ Goes(u, "over")
    /\ WriteText(on[u], Append(seen[u], "cancelled"), {})
    /\ UNCHANGED <<storeVars, tapVars, doneVars, procVars>>

(***************************************************************************)
(* handle_download, the /download command: no token and no buttons.        *)
(***************************************************************************)
AskDownload(u, c) ==
    /\ MayBegin(u, "none")
    /\ Blank(c)
    /\ Goes(u, "direct")
    /\ on' = [on EXCEPT ![u] = c]
    /\ WriteText(c, <<"started">>, {})
    /\ UNCHANGED <<storeVars, press, seen, doneVars, procVars>>

DirectRequest(u, observed) ==
    /\ task[u] = "direct"
    /\ context' = [context EXCEPT ![on[u]] = observed]
    /\ Execute(u, on[u], observed.key, DefaultVideoSpec(observed.side), "over")
    /\ UNCHANGED <<token, cardVars, tapVars, dismissed, procVars>>

AnswerDirect(u) ==
    /\ press[u] = NoButton
    /\ task[u] \in {"unqueued", "refused"}
    /\ Goes(u, "over")
    /\ WriteText(on[u], <<"error">>, {})
    /\ UNCHANGED <<storeVars, tapVars, doneVars, procVars>>

-----------------------------------------------------------------------------
(***************************************************************************)
(* What else happens.                                                      *)
(***************************************************************************)
\* A call to Redis, the database or Telegram raises out of the handler, the use
\* case refuses the URL with an alert, or there is no message to edit.
HandlerRaises(u) ==
    /\ task[u] \in Running
    /\ Goes(u, "over")
    /\ UNCHANGED <<storeVars, cardVars, tapVars, doneVars, procVars>>

\* The worker's progress reaches the card through TelegramProgressListener,
\* after an enqueue that raised too: its job may have been queued.
ListenerEdits(c) ==
    /\ \E r \in requests : r.card = c
    /\ WriteText(c, <<"progress">>, {})
    /\ UNCHANGED <<storeVars, task, tapVars, doneVars, procVars>>

\* Redis drops the entry when its TTL is over.
Expire(c) ==
    /\ token[c] # "none"
    /\ token' = [token EXCEPT ![c] = "none"]
    /\ UNCHANGED <<context, cardVars, task, tapVars, doneVars, procVars>>

\* The bot is stopped and started again, possibly with another policy.  The
\* running handlers are lost; taps Telegram still holds are delivered.
Restart(configured) ==
    /\ boot < MaxBoots
    /\ boot' = boot + 1
    /\ policy' = configured
    /\ task' = [u \in Update |-> IF task[u] \in Running THEN "over" ELSE task[u]]
    /\ UNCHANGED <<storeVars, cardVars, tapVars, doneVars>>

ShowStep(u) ==
    \/ \E c \in Card : AskPreview(u, c)
    \/ TurnDown(u)
    \/ PreviewFails(u)
    \/ \E observed \in Context : SavePreview(u, observed)
    \/ ShowCard(u)

TapStep(u) ==
    \/ \E c \in Card, b \in Button : Tap(u, c, b)
    \/ GetToken(u)
    \/ SwapMarkup(u)
    \/ PopToken(u)
    \/ Admit(u)
    \/ RequestDownload(u)
    \/ AnswerTap(u)
    \/ DeleteToken(u)
    \/ SayCancelled(u)

DirectStep(u) ==
    \/ \E c \in Card : AskDownload(u, c)
    \/ \E observed \in Context : DirectRequest(u, observed)
    \/ AnswerDirect(u)

WorldStep ==
    \/ \E c \in Card : ListenerEdits(c) \/ Expire(c)
    \/ \E configured \in Policy : Restart(configured)

Next ==
    \/ \E u \in Update : \/ ShowStep(u)
                         \/ TapStep(u)
                         \/ DirectStep(u)
                         \/ HandlerRaises(u)
    \/ WorldStep

Spec == Init /\ [][Next]_vars

-----------------------------------------------------------------------------
(***************************************************************************)
(* Properties.                                                             *)
(***************************************************************************)
\* However taps, expiry, cancels and restarts interleave, a card is turned
\* into at most one request: the token is claimed by GETDEL, and "first tap
\* wins" (preview_context_store.py).
OneRequestPerCard ==
    \A p, q \in requests : p.card = q.card => p = q

\* A cancel that still found the token alive is final: no tap that was on its
\* way, and none that comes later, downloads the card.
CancelIsFinal ==
    \A r \in requests : r.card \notin dismissed

\* No request is made that the policy in force forbids, however old the button
\* and whichever policy it was drawn under, nor one for more pixels than the
\* preview observed (RequestDownloadUseCase.execute, FormatPolicy).
OnlyPermittedRequests ==
    [][\A r \in requests' \ requests :
           /\ IsAllowed(policy, context'[r.card].key, r.spec)
           /\ r.spec.kind = "video" =>
                  ShortSide[r.spec.tier] <= context'[r.card].side
      ]_vars

\* The card and the use case never disagree: a button that this process drew
\* is not refused by this process (format_policy.py, "one rule set, so the UI
\* and the use case can never disagree").
DrawnButtonsAreAllowed ==
    \A c \in Card :
        drawn[c] = boot =>
            \A code \in buttons[c] \cap ConfirmCode :
                IsAllowed(policy, context[c].key, ParseConfirm(code))

-----------------------------------------------------------------------------
(***************************************************************************)
(* The inductive invariant.                                                *)
(***************************************************************************)
Handling == {"sent"} \cup Running              \* the update is about a card
Opening  == {"fetching", "saved", "direct"}    \* no user can tap the card yet
Deciding == {"fetching", "direct", "claimed", "admitted"}  \* may still act

Fits(c, code) ==
    LET spec == ParseConfirm(code)
    IN  spec.kind = "video" => ShortSide[spec.tier] <= context[c].side

\* A card has a text before it has anything else, and a handler that opens a
\* card is alone with it.
CardInv ==
    /\ \A u \in Update : task[u] \in Handling => on[u] \in Card /\ ~ Blank(on[u])
    /\ \A c \in Card : Blank(c) =>
           c \notin OldCard /\ token[c] # "live" /\ buttons[c] = {}
    /\ \A u \in Update : task[u] \in Opening => buttons[on[u]] = {}
    /\ \A u, v \in Update :
           task[u] \in Opening /\ task[v] \in Handling /\ on[u] = on[v] => u = v

\* Whoever may still make a request has taken the token, or has not saved it
\* yet, and nobody else may; a request or a cancel leaves no token behind.
SpendInv ==
    /\ \A u \in Update : task[u] \in Deciding =>
           /\ token[on[u]] # "live"
           /\ on[u] \notin dismissed
           /\ \A r \in requests : r.card # on[u]
    /\ \A u, v \in Update :
           task[u] \in Deciding /\ task[v] \in Deciding /\ on[u] = on[v] => u = v
    /\ \A r \in requests : token[r.card] # "live" /\ ~ Blank(r.card)
    /\ \A c \in dismissed : token[c] # "live" /\ ~ Blank(c)
    /\ OneRequestPerCard
    /\ CancelIsFinal

\* The buttons of a card, and the taps on their way, come from the context
\* that is stored.  Tokens of older builds are never live.
DrawInv ==
    /\ \A c \in Card : drawn[c] <= boot
    /\ \A c \in OldCard : token[c] # "live"
    /\ \A c \in Card : token[c] = "live" => context[c] \in Context
    /\ \A u \in Update : task[u] \in {"saved", "looked"} => context[on[u]] \in Context
    /\ \A u \in Update : task[u] \in Opening \cup {"looked", "claimed", "admitted"}
           => on[u] \notin OldCard
    /\ \A c \in Card \ OldCard :
           \A code \in buttons[c] \cap ConfirmCode : Fits(c, code)
    /\ \A u \in Update :
           /\ task[u] \in {"sent", "claimed", "admitted"}
           /\ on[u] \notin OldCard
           /\ press[u] \in ConfirmCode
           => Fits(on[u], press[u])
    /\ \A u \in Update : task[u] \in {"claimed", "admitted"}
           => press[u] \in ConfirmCode
    /\ DrawnButtonsAreAllowed

FlowInv == TypeOK /\ CardInv /\ SpendInv /\ DrawInv

=============================================================================
