-------------------------------- MODULE Users --------------------------------
(***************************************************************************)
(* One Telegram user: registration by /start and by a download, and the    *)
(* choice of a language, which is written to Redis and then to PostgreSQL. *)
(* aiogram handles every update in a task of its own, so the awaits of     *)
(* several handlers interleave.                                            *)
(***************************************************************************)
EXTENDS Naturals

CONSTANTS
    Handler,        \* the tasks that handle the user's updates
    Locale,         \* SUPPORTED_LOCALES
    DefaultLocale,  \* DEFAULT_LOCALE
    Tag,            \* language tags that Telegram may report
    Primary         \* the primary subtag of each, in lower case

\* Nothing cached or reported, a row without a language, and no row.
NoLocale == "no_locale"
NoLanguage == "no_language"
NoRow == "no_row"

ASSUME LocaleAssumption ==
    /\ DefaultLocale \in Locale
    /\ {NoLocale, NoLanguage, NoRow} \cap (Locale \union Tag) = {}
    /\ DOMAIN Primary = Tag

VARIABLES
    tag,      \* from_user.language_code, or NoLocale
    update,   \* what each handler handles: start, download or a language
    pc,       \* where it stands
    locale,   \* the locale the middleware has resolved for it
    redis,    \* the override in Redis
    row,      \* User.language in PostgreSQL
    copies,   \* rows with the user's telegram_id
    overlap,  \* choices whose two writes overlap those of another
    split     \* whether a choice has gone wrong since the last clean one

vars == <<tag, update, pc, locale, redis, row, copies, overlap, split>>

\* The updates: /start, a confirmed download, a tap on a language.
Updates == {"start", "download"} \union Locale

\* _normalize: the primary subtag, if it is translated.
Normalize(t) ==
    IF t \in Tag /\ Primary[t] \in Locale THEN Primary[t] ELSE NoLocale

\* UserLocaleManager.get_locale: override, Telegram's language, default.
GetLocale ==
    CASE redis # NoLocale          -> redis
      [] Normalize(tag) # NoLocale -> Normalize(tag)
      [] OTHER                     -> DefaultLocale

Init ==
    /\ tag \in Tag \union {NoLocale}
    /\ update \in [Handler -> Updates]
    /\ pc = [h \in Handler |-> "idle"]
    /\ locale = [h \in Handler |-> NoLocale]
    /\ redis = NoLocale
    /\ row = NoRow
    /\ copies = 0
    /\ overlap = {}
    /\ split = FALSE

-----------------------------------------------------------------------------
\* The middleware resolves the locale before the handler runs.
Receive(h) ==
    /\ pc[h] = "idle"
    /\ pc' = [pc EXCEPT ![h] = IF update[h] \in Locale THEN "choose" ELSE "look"]
    /\ locale' = [locale EXCEPT ![h] = GetLocale]
    /\ UNCHANGED <<tag, update, redis, row, copies, overlap, split>>

\* A bug: a returning user gets the locale of the update.
GetUserAndUpdate(h) ==
    /\ pc[h] = "look"
    /\ pc' = [pc EXCEPT ![h] = IF copies = 0 THEN "create" ELSE "done"]
    /\ row' = (IF copies = 0 THEN row ELSE locale[h])
    /\ UNCHANGED <<tag, update, locale, redis, copies, overlap, split>>

\* get_by_telegram_id: one row is returned as it is, several raise.
GetUser(h) ==
    /\ pc[h] = "look"
    /\ pc' = [pc EXCEPT ![h] = CASE copies = 0 -> "create"
                                 [] copies = 1 -> "done"
                                 [] OTHER      -> "failed"]
    /\ UNCHANGED <<tag, update, locale, redis, row, copies, overlap, split>>

\* What a new row says: the locale of /start, nothing for a download.
NewLanguage(h) == IF update[h] = "start" THEN locale[h] ELSE NoLanguage

\* A bug: telegram_id is not unique.
CreateAnyway(h) ==
    /\ pc[h] = "create"
    /\ pc' = [pc EXCEPT ![h] = "done"]
    /\ row' = NewLanguage(h)
    /\ copies' = copies + 1
    /\ UNCHANGED <<tag, update, locale, redis, overlap, split>>

\* create and its commit; the second insert for a telegram_id raises.
CreateUser(h) ==
    /\ pc[h] = "create"
    /\ IF copies = 0
       THEN /\ pc' = [pc EXCEPT ![h] = "done"]
            /\ row' = NewLanguage(h)
            /\ copies' = 1
       ELSE /\ pc' = [pc EXCEPT ![h] = "failed"]
            /\ UNCHANGED <<row, copies>>
    /\ UNCHANGED <<tag, update, locale, redis, overlap, split>>

Storing == {h \in Handler : pc[h] = "store"}

\* handle_language_choice, first write: the override in Redis.
SetLocale(h) ==
    /\ pc[h] = "choose"
    /\ pc' = [pc EXCEPT ![h] = "store"]
    /\ redis' = update[h]
    /\ overlap' = (IF Storing = {} THEN overlap
                   ELSE overlap \union Storing \union {h})
    /\ UNCHANGED <<tag, update, locale, row, copies, split>>

\* Second write: set_language does nothing when there is no row.
SetLanguage(h) ==
    /\ pc[h] = "store"
    /\ copies <= 1
    /\ pc' = [pc EXCEPT ![h] = "done"]
    /\ row' = (IF copies = 1 THEN update[h] ELSE row)
    /\ split' = (copies = 0 \/ h \in overlap)
    /\ UNCHANGED <<tag, update, locale, redis, copies, overlap>>

\* A handler ends with an error of Redis or the database, or with the bot;
\* the write it was waiting for may have been made.
Break(h) ==
    /\ pc[h] \in {"look", "create", "choose", "store"}
    /\ pc' = [pc EXCEPT ![h] = "failed"]
    /\ \/ /\ split' = (split \/ pc[h] = "store")
          /\ UNCHANGED <<redis, row, copies, overlap>>
       \/ /\ pc[h] = "create" /\ copies = 0
          /\ row' = NewLanguage(h) /\ copies' = 1
          /\ UNCHANGED <<redis, overlap, split>>
       \/ /\ pc[h] = "choose"
          /\ redis' = update[h] /\ split' = TRUE
          /\ overlap' = overlap \union Storing
          /\ UNCHANGED <<row, copies>>
       \/ /\ pc[h] = "store" /\ copies = 1
          /\ row' = update[h] /\ split' = TRUE
          /\ UNCHANGED <<redis, copies, overlap>>
    /\ UNCHANGED <<tag, update, locale>>

\* Redis forgets the override.
Evict ==
    /\ redis # NoLocale
    /\ redis' = NoLocale
    /\ UNCHANGED <<tag, update, pc, locale, row, copies, overlap, split>>

Next ==
    \/ \E h \in Handler :
          \/ Receive(h) \/ GetUser(h) \/ CreateUser(h)
          \/ SetLocale(h) \/ SetLanguage(h) \/ Break(h)
    \/ Evict

Spec == Init /\ [][Next]_vars

-----------------------------------------------------------------------------
\* The variables have their types.
TypeOK ==
    /\ tag \in Tag \union {NoLocale}
    /\ update \in [Handler -> Updates]
    /\ pc \in [Handler -> {"idle", "look", "create", "choose", "store", "done",
                           "failed"}]
    /\ locale \in [Handler -> Locale \union {NoLocale}]
    /\ redis \in Locale \union {NoLocale}
    /\ row \in Locale \union {NoLanguage, NoRow}
    /\ copies \in Nat
    /\ overlap \subseteq Handler
    /\ split \in BOOLEAN

\* However many first updates overlap, the user has one row: the insert that
\* comes second is refused (get_by_telegram_id and create are two steps).
OneRowPerUser == copies <= 1 /\ (copies = 0 <=> row = NoRow)

\* The two stores agree after a choice that found a row, ran to its end and
\* overlapped no other choice, whatever /start and downloads do meanwhile.  A
\* cache that has forgotten the choice does not disagree ("Writing both keeps
\* the two stores consistent", handlers/language.py).
StoresAgree ==
    ~split /\ Storing = {} /\ row # NoRow /\ redis # NoLocale => row = redis

\* What a handler knows where it stands: only a tap on a language gets to the
\* two writes, and past the middleware every handler has a locale.
HandlerInv ==
    \A h \in Handler :
        /\ pc[h] \in {"choose", "store"} => update[h] \in Locale
        /\ pc[h] # "idle" => locale[h] \in Locale

\* Between the two writes of a choice that overlaps no other, Redis has that
\* choice or nothing; and an override without a row is remembered as a split,
\* so that the row a later /start or download inserts owes it nothing.
ChoiceInv ==
    /\ \A h \in Storing \ overlap : redis \in {update[h], NoLocale}
    /\ copies = 0 /\ redis # NoLocale /\ Storing = {} => split

\* The types, one row whoever inserts first, and between the steps of the
\* handlers what makes the stores agree: every step preserves them together.
UsersInv == TypeOK /\ OneRowPerUser /\ HandlerInv /\ ChoiceInv /\ StoresAgree
=============================================================================
