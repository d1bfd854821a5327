----------------------------- MODULE UsersProofs -----------------------------
(***************************************************************************)
(* Proofs about Users, for any number of concurrent handlers and any set   *)
(* of locales and tags.  UsersInv is inductive: one step per action.       *)
(***************************************************************************)
EXTENDS Users, TLAPS

USE LocaleAssumption
USE DEF NoLocale, NoLanguage, NoRow, Updates

\* The middleware always resolves a locale that is translated.
LEMMA GetLocaleIsSupported ==
    ASSUME redis \in Locale \union {NoLocale}
    PROVE  GetLocale \in Locale
<1>1. Normalize(tag) \in Locale \union {NoLocale}
  BY DEF Normalize
<1> QED
  BY <1>1 DEF GetLocale

\* A new row says a locale or nothing, which is never the mark of no row.
LEMMA NewLanguageType ==
    ASSUME UsersInv, NEW h \in Handler, pc[h] = "create"
    PROVE  NewLanguage(h) \in Locale \union {NoLanguage} /\ NewLanguage(h) # NoRow
<1>1. locale[h] \in Locale
  BY DEF UsersInv, HandlerInv
<1> QED
  BY <1>1 DEF NewLanguage

\* The row is inserted by one handler: an override that was chosen before it
\* is in the course of being stored, or is known not to have been.
LEMMA InsertKeeps ==
    ASSUME UsersInv, NEW h \in Handler, NEW p \in {"done", "failed"},
           pc[h] = "create", copies = 0,
           pc' = [pc EXCEPT ![h] = p],
           row' = NewLanguage(h), copies' = 1,
           UNCHANGED <<tag, update, locale, redis, overlap, split>>
    PROVE  UsersInv'
<1> USE DEF UsersInv, TypeOK
<1>1. TypeOK' /\ OneRowPerUser'
  <2>1. row' \in Locale \union {NoLanguage} /\ row' # NoRow
    BY NewLanguageType
  <2>2. OneRowPerUser'
    BY <2>1 DEF OneRowPerUser
  <2> QED
    BY <2>1, <2>2
<1>2. Storing' = Storing
  BY DEF Storing
<1>3. HandlerInv'
  BY DEF HandlerInv
<1>4. ChoiceInv' /\ StoresAgree'
  BY <1>2 DEF ChoiceInv, StoresAgree
<1> QED
  BY <1>1, <1>3, <1>4

\* The steps that write nothing but their own place.
LEMMA MoveKeeps ==
    ASSUME UsersInv, NEW h \in Handler, NEW p \in {"create", "done", "failed"},
           pc[h] \in {"look", "create", "choose"},
           pc' = [pc EXCEPT ![h] = p],
           UNCHANGED <<tag, update, locale, redis, row, copies, overlap, split>>
    PROVE  UsersInv'
<1>1. Storing' = Storing
  BY DEF Storing, UsersInv, TypeOK
<1> QED
  BY <1>1 DEF UsersInv, TypeOK, OneRowPerUser, HandlerInv, ChoiceInv, StoresAgree

\* The first write of a choice: whoever is between the two writes overlaps.
LEMMA SetLocaleKeeps ==
    ASSUME UsersInv, NEW h \in Handler, SetLocale(h)
    PROVE  UsersInv'
<1> USE DEF UsersInv, TypeOK, SetLocale
<1>1. update[h] \in Locale
  BY DEF HandlerInv
<1>2. Storing' = Storing \union {h} /\ Storing \subseteq Handler
  BY DEF Storing
<1>3. TypeOK' /\ OneRowPerUser'
  BY <1>1, <1>2 DEF OneRowPerUser
<1>4. HandlerInv'
  BY DEF HandlerInv
<1>5. Storing \subseteq overlap'
  BY <1>2
<1>6. ChoiceInv' /\ StoresAgree'
  BY <1>2, <1>5 DEF ChoiceInv, StoresAgree
<1> QED
  BY <1>3, <1>4, <1>6

\* The second write: it closes the split unless it found no row or overlapped.
LEMMA SetLanguageKeeps ==
    ASSUME UsersInv, NEW h \in Handler, SetLanguage(h)
    PROVE  UsersInv'
<1> USE DEF UsersInv, TypeOK
<1>0. /\ pc[h] = "store" /\ pc' = [pc EXCEPT ![h] = "done"]
      /\ copies <= 1
      /\ row' = IF copies = 1 THEN update[h] ELSE row
      /\ UNCHANGED <<tag, update, locale, redis, copies, overlap>>
  BY DEF SetLanguage
<1>a. split' \in BOOLEAN /\ (split' <=> copies = 0 \/ h \in overlap)
  BY Zenon DEF SetLanguage
<1>1. update[h] \in Locale
  BY <1>0 DEF HandlerInv
<1>2. h \in Storing /\ Storing' = Storing \ {h}
  BY <1>0 DEF Storing
<1>3. copies \in {0, 1}
  BY <1>0
<1>4. TypeOK' /\ OneRowPerUser'
  BY <1>0, <1>a, <1>1, <1>3 DEF OneRowPerUser
<1>5. HandlerInv'
  BY <1>0 DEF HandlerInv
<1>6. ChoiceInv'
  BY <1>0, <1>a, <1>2 DEF ChoiceInv
<1>7. StoresAgree'
  BY <1>0, <1>a, <1>2, <1>3 DEF ChoiceInv, StoresAgree
<1> QED
  BY <1>4, <1>5, <1>6, <1>7

\* A handler that breaks between the two writes, whichever of them was made,
\* leaves the split behind.
LEMMA BreakKeeps ==
    ASSUME UsersInv, NEW h \in Handler, Break(h)
    PROVE  UsersInv'
<1> USE DEF UsersInv, TypeOK
<1>0. /\ pc[h] \in {"look", "create", "choose", "store"}
      /\ pc' = [pc EXCEPT ![h] = "failed"]
      /\ UNCHANGED <<tag, update, locale>>
  BY DEF Break
<1>a. HandlerInv'
  BY <1>0 DEF HandlerInv
<1>1. CASE /\ split' = (split \/ pc[h] = "store")
           /\ UNCHANGED <<redis, row, copies, overlap>>
  <2>1. CASE pc[h] = "store"
    <3>1. split' = TRUE
      BY <1>1, <2>1
    <3>2. Storing' \subseteq Storing
      BY <1>0 DEF Storing
    <3> QED
      BY <1>0, <1>a, <1>1, <3>1, <3>2 DEF OneRowPerUser, ChoiceInv, StoresAgree
  <2>2. CASE pc[h] # "store"
    BY <1>0, <1>1, <2>2, MoveKeeps
  <2> QED
    BY <2>1, <2>2
<1>2. CASE /\ pc[h] = "create" /\ copies = 0
           /\ row' = NewLanguage(h) /\ copies' = 1
           /\ UNCHANGED <<redis, overlap, split>>
  BY <1>0, <1>2, InsertKeeps
<1>3. CASE /\ pc[h] = "choose"
           /\ redis' = update[h] /\ split' = TRUE
           /\ overlap' = overlap \union Storing
           /\ UNCHANGED <<row, copies>>
  <2>1. Storing' = Storing /\ Storing \subseteq Handler
    BY <1>0, <1>3 DEF Storing
  <2>2. update[h] \in Locale
    BY <1>3 DEF HandlerInv
  <2> QED
    BY <1>0, <1>a, <1>3, <2>1, <2>2 DEF OneRowPerUser, ChoiceInv, StoresAgree
<1>4. CASE /\ pc[h] = "store" /\ copies = 1
           /\ row' = update[h] /\ split' = TRUE
           /\ UNCHANGED <<redis, copies, overlap>>
  <2>1. Storing' \subseteq Storing
    BY <1>0 DEF Storing
  <2>2. update[h] \in Locale
    BY <1>4 DEF HandlerInv
  <2>3. TypeOK' /\ OneRowPerUser'
    BY <1>0, <1>4, <2>2 DEF OneRowPerUser
  <2>4. ChoiceInv' /\ StoresAgree'
    BY <1>0, <1>4, <2>1 DEF ChoiceInv, StoresAgree
  <2> QED
    BY <1>a, <2>3, <2>4
<1> QED
  BY <1>1, <1>2, <1>3, <1>4 DEF Break

\* Every step preserves the invariant.
LEMMA NextKeeps == UsersInv /\ [Next]_vars => UsersInv'
<1> SUFFICES ASSUME UsersInv, [Next]_vars
             PROVE  UsersInv'
  OBVIOUS
<1>1. ASSUME NEW h \in Handler, Receive(h)
      PROVE  UsersInv'
  <2>1. GetLocale \in Locale
    BY GetLocaleIsSupported DEF UsersInv, TypeOK
  <2>2. Storing' = Storing
    BY <1>1 DEF Receive, Storing, UsersInv, TypeOK
  <2> QED
    BY <1>1, <2>1, <2>2
       DEF Receive, UsersInv, TypeOK, OneRowPerUser, HandlerInv, ChoiceInv,
           StoresAgree
<1>2. ASSUME NEW h \in Handler, GetUser(h)
      PROVE  UsersInv'
  <2>1. PICK p \in {"create", "done", "failed"} : pc' = [pc EXCEPT ![h] = p]
    <3>1. CASE copies = 0
      BY <1>2, <3>1 DEF GetUser
    <3>2. CASE copies = 1
      BY <1>2, <3>2 DEF GetUser
    <3> QED
      BY <3>1, <3>2 DEF UsersInv, TypeOK, OneRowPerUser
  <2> QED
    BY <1>2, <2>1, MoveKeeps DEF GetUser
<1>3. ASSUME NEW h \in Handler, CreateUser(h)
      PROVE  UsersInv'
  <2>1. CASE copies = 0
    BY <1>3, <2>1, InsertKeeps DEF CreateUser
  <2>2. CASE copies # 0
    BY <1>3, <2>2, MoveKeeps DEF CreateUser
  <2> QED
    BY <2>1, <2>2
<1>4. CASE Evict
  <2>1. Storing' = Storing
    BY <1>4 DEF Evict, Storing
  <2> QED
    BY <1>4, <2>1 DEF Evict, UsersInv, TypeOK, OneRowPerUser, HandlerInv,
                      ChoiceInv, StoresAgree
<1>5. CASE UNCHANGED vars
  <2>1. Storing' = Storing
    BY <1>5 DEF vars, Storing
  <2> QED
    BY <1>5, <2>1 DEF vars, UsersInv, TypeOK, OneRowPerUser, HandlerInv,
                      ChoiceInv, StoresAgree
<1> QED
  BY <1>1, <1>2, <1>3, <1>4, <1>5, SetLocaleKeeps, SetLanguageKeeps, BreakKeeps
     DEF Next

\* However many updates of a user overlap, fail or are cut off, there is one
\* row at most, inserted once.
THEOREM UsersInvariance == Spec => []UsersInv
<1>1. Init => UsersInv
  <2> SUFFICES ASSUME Init PROVE UsersInv
    OBVIOUS
  <2>0. split \in BOOLEAN
    BY Zenon DEF Init
  <2>1. TypeOK /\ OneRowPerUser
    BY <2>0 DEF Init, TypeOK, OneRowPerUser
  <2>2. HandlerInv /\ Storing = {}
    BY DEF Init, HandlerInv, Storing
  <2>3. ChoiceInv /\ StoresAgree
    BY <2>2 DEF Init, ChoiceInv, StoresAgree
  <2> QED
    BY <2>1, <2>2, <2>3 DEF UsersInv
<1>2. UsersInv /\ [Next]_vars => UsersInv'
  BY NextKeeps
<1> QED
  BY <1>1, <1>2, PTL DEF Spec

\* Redis and PostgreSQL agree after a choice that found a row, ran to its end
\* and overlapped no other.
THEOREM StoresStayTogether == Spec => []StoresAgree
<1>1. UsersInv => StoresAgree
  BY DEF UsersInv
<1> QED
  BY <1>1, UsersInvariance, PTL

=============================================================================
